---- MODULE Spec2Model ----
(***************************************************************************)
(* A model of the go-audio/aiff codec: the container decoder (header,      *)
(* format scan, chunk dispatch, bulk and incremental PCM access, reset)    *)
(* and the container encoder, at the level of the bytes of the stream.     *)
(* A stream is a sequence of bytes with a cursor; every Go method is an    *)
(* operator from a decoder value to a decoder value and a result, and      *)
(* every action of the specification is one call of the public API.        *)
(***************************************************************************)
EXTENDS Integers, Sequences, FiniteSets, TLC

VARIABLES
  desc,    \* the description the input stream was built from
  d,       \* the decoder (its stream and cursor included)
  last,    \* the last API call: its name, argument and results
  hist,    \* the names of the last two API calls
  nops,    \* the number of API calls made
  failed,  \* an API call returned an error since the decoder was created or reset
  acc,     \* the samples collected by the incremental reads
  enc,     \* the encoder and the bytes it has written
  d2       \* the decoder reading the encoder's output

vars == <<desc, d, last, hist, nops, failed, acc, enc, d2>>

(***************************************************************************)
(* Bounds of the model.                                                    *)
(***************************************************************************)
\* number of API calls made on one decoder in a behaviour
MaxOps == 3
\* turns of a chunk loop that are followed
MaxTurns == 12
\* chunks in a stream built for the chunk loops
MaxChunks == 4
\* largest caller buffer length handed to PCMBuffer
MaxBufLen == 2

(***************************************************************************)
(* Bytes and fixed-width integers.                                         *)
(***************************************************************************)
Min(a, b) == IF a < b THEN a ELSE b

Max(a, b) == IF a > b THEN a ELSE b

\* F applied to the value v: names a result that is used more than once
With(v, F(_)) == F(v)

RECURSIVE Pow2(_)
Pow2(n) == IF n <= 0 THEN 1 ELSE 2 * Pow2(n - 1)

RECURSIVE Zeros(_)
Zeros(n) == IF n <= 0 THEN << >> ELSE <<0>> \o Zeros(n - 1)

\* binary.BigEndian.Uint16 / Uint32 of a byte slice
U16(b) == b[1] * 256 + b[2]

\* a uint32 from 2^30 on is kept as 2^30: as a size or an offset it lies beyond
\* the end of every stream of the model
HugeSize == 1073741824

U32(b) == IF b[1] >= 64 THEN HugeSize ELSE ((b[1] * 256 + b[2]) * 256 + b[3]) * 256 + b[4]

\* binary.Write of a uint16 / uint32 in big-endian order
BE16(v) == <<(v \div 256) % 256, v % 256>>

BE32(v) == <<(v \div 16777216) % 256, (v \div 65536) % 256, (v \div 256) % 256, v % 256>>

\* the concatenation of a sequence of byte sequences
RECURSIVE Concat(_)
Concat(ss) == IF ss = << >> THEN << >> ELSE Head(ss) \o Concat(Tail(ss))

\* bytes.TrimRight(b, "\x00")
RECURSIVE TrimRightZero(_)
TrimRightZero(b) ==
  IF b = << >> THEN << >>
  ELSE IF b[Len(b)] = 0 THEN TrimRightZero(SubSeq(b, 1, Len(b) - 1))
  ELSE b

(***************************************************************************)
(* Identifiers of the container (4-byte literals).                         *)
(***************************************************************************)
formID == <<70, 79, 82, 77>>

aiffID == <<65, 73, 70, 70>>

aifcID == <<65, 73, 70, 67>>

COMMID == <<67, 79, 77, 77>>

COMTID == <<67, 79, 77, 84>>

SSNDID == <<83, 83, 78, 68>>

chanID == <<67, 72, 65, 78>>

bascID == <<98, 97, 115, 99>>

trnsID == <<116, 114, 110, 115>>

cateID == <<99, 97, 116, 101>>

encNone == <<78, 79, 78, 69>>

encSowt == <<115, 111, 119, 116>>

encNotSet == <<0, 0, 0, 0>>

\* an identifier no handler knows
junkID == <<74, 85, 78, 75>>

(***************************************************************************)
(* The underlying io.ReadSeeker: r = [data, pos], pos counted from 0.      *)
(***************************************************************************)
Avail(r) == Max(0, Len(r.data) - r.pos)

\* io.ReadFull(r, n) as used by binary.Read: all n bytes or an error
ReadFull(r, n) ==
  LET got == Min(n, Avail(r)) IN
  [r |-> [r EXCEPT !.pos = @ + got],
   b |-> SubSeq(r.data, r.pos + 1, r.pos + got),
   err |-> IF got = n THEN "nil" ELSE IF got = 0 THEN "EOF" ELSE "ErrUnexpectedEOF"]

\* io.CopyN(dst, r, n): copies what is there, io.EOF when it is less than n
CopyN(r, n) ==
  LET got == Min(Max(n, 0), Avail(r)) IN
  [r |-> [r EXCEPT !.pos = @ + got],
   b |-> SubSeq(r.data, r.pos + 1, r.pos + got),
   err |-> IF got < n THEN "EOF" ELSE "nil"]

\* r.Seek(off, io.SeekCurrent): a negative target is refused, the cursor stays
SeekCur(r, off) ==
  IF r.pos + off < 0 THEN r ELSE [r EXCEPT !.pos = @ + off]

\* binary.Read from an in-memory bytes.Buffer b: all n bytes or an error
BufFull(b, n) ==
  LET got == Min(n, Len(b)) IN
  [rest |-> IF got = n THEN SubSeq(b, n + 1, Len(b)) ELSE << >>,
   b |-> SubSeq(b, 1, got),
   err |-> IF got = n THEN "nil" ELSE IF got = 0 THEN "EOF" ELSE "ErrUnexpectedEOF"]

(***************************************************************************)
(* 80-bit extended floats of the COMM chunk (audio.IEEEFloatToInt and      *)
(* audio.IntToIEEEFloat as the decoder and the encoder call them).         *)
(***************************************************************************)
IEEEFloatToInt(b) ==
  IF b[1] <= 63 THEN 1
  ELSE IF b[1] > 64 THEN 67108864
  ELSE IF b[2] > 28 THEN 800000000
  ELSE (b[3] * 8388608 + b[4] * 32768 + b[5] * 128 + (b[6] \div 2)) \div Pow2(29 - b[2])

RECURSIVE BitLen(_)
BitLen(n) == IF n <= 0 THEN 0 ELSE 1 + BitLen(n \div 2)

\* byte j (0 = most significant) of the mantissa word i * 2^(32 - BitLen(i))
MantByte(i, j) ==
  LET k == BitLen(i)
      w == k - 8 * j
  IN IF w <= 0 THEN 0
     ELSE IF w >= 8 THEN (i \div Pow2(w - 8)) % 256
     ELSE (i % Pow2(w)) * Pow2(8 - w)

IntToIEEEFloat(i) ==
  IF i <= 0 THEN Zeros(10)
  ELSE LET expon == BitLen(i) + 16382 IN
       <<expon \div 256, expon % 256,
         MantByte(i, 0), MantByte(i, 1), MantByte(i, 2), MantByte(i, 3), 0, 0, 0, 0>>

(***************************************************************************)
(* The decoder.                                                            *)
(***************************************************************************)
\* d.PCMChunk before the sound-data chunk was located
NoChunk == [ID |-> <<0, 0, 0, 0>>, Size |-> 0, Pos |-> 0, N |-> 0, set |-> FALSE]

NoAppleInfo ==
  [Beats |-> 0, Note |-> 0, Scale |-> 0, Numerator |-> 0, Denominator |-> 0,
   IsLooping |-> FALSE, Tags |-> << >>]

NewDecoder(data) ==
  [r |-> [data |-> data, pos |-> 0, ops |-> 0],
   ID |-> <<0, 0, 0, 0>>, Size |-> 0, Form |-> <<0, 0, 0, 0>>,
   commSize |-> 0, NumChans |-> 0, NumSampleFrames |-> 0, BitDepth |-> 0,
   SampleRate |-> 0, PCMSize |-> 0, PCMChunk |-> NoChunk, Comments |-> << >>,
   Encoding |-> <<0, 0, 0, 0>>, EncodingName |-> << >>,
   HasAppleInfo |-> FALSE, AppleInfo |-> NoAppleInfo,
   err |-> "nil", pcmDataAccessed |-> FALSE, byteOrder |-> "BigEndian",
   rewindBytes |-> 0,
   seen |-> << >>]

\* seen is not a field of the Go struct: it logs the identifier of every chunk
\* handled (parsed by the format scan or handed to the dispatcher), in order
Saw(d0, id) == [d0 EXCEPT !.seen = Append(@, id)]

\* one read or seek call on the underlying stream
Touch(r) == [r EXCEPT !.ops = @ + 1]

Err(dd) == IF dd.err = "EOF" THEN "nil" ELSE dd.err

iDnSize(d0) ==
  With(ReadFull(Touch(d0.r), 4), LAMBDA a :
    IF a.err # "nil"
    THEN [d |-> [d0 EXCEPT !.r = a.r, !.err = a.err], ID |-> <<0, 0, 0, 0>>, blockSize |-> 0,
          raw |-> Zeros(4), err |-> a.err]
    ELSE With(ReadFull(Touch(a.r), 4), LAMBDA z :
      IF z.err # "nil"
      THEN [d |-> [d0 EXCEPT !.r = z.r, !.err = z.err], ID |-> a.b, blockSize |-> 0,
            raw |-> Zeros(4), err |-> z.err]
      ELSE [d |-> [d0 EXCEPT !.r = z.r, !.err = "nil"], ID |-> a.b, blockSize |-> U32(z.b),
            raw |-> z.b, err |-> "nil"]))

\* readHeaders once the 12 header bytes (or fewer) are copied: d1 is the
\* decoder after the copy, i, z and f the reads of ID, Size and Form
readForm(d1, f) ==
  IF f.err # "nil" THEN [d |-> [d1 EXCEPT !.err = f.err], err |-> f.err]
  ELSE IF f.b # aiffID /\ f.b # aifcID
  THEN [d |-> [d1 EXCEPT !.Form = f.b, !.err = "format not supported"], err |-> "format not supported"]
  ELSE [d |-> [d1 EXCEPT !.Form = f.b, !.err = "nil"], err |-> "nil"]

readSize(d1, z) ==
  IF z.err # "nil" THEN [d |-> [d1 EXCEPT !.err = z.err], err |-> z.err]
  ELSE readForm([d1 EXCEPT !.Size = U32(z.b)], BufFull(z.rest, 4))

readID(d1, i) ==
  IF i.err # "nil" THEN [d |-> [d1 EXCEPT !.err = i.err], err |-> i.err]
  ELSE IF i.b # formID
  THEN [d |-> [d1 EXCEPT !.ID = i.b, !.err = "format not supported"], err |-> "format not supported"]
  ELSE readSize([d1 EXCEPT !.ID = i.b], BufFull(i.rest, 4))

readHeaders(d0) ==
  IF d0.Size > 0 THEN [d |-> d0, err |-> "nil"]
  ELSE With(CopyN(Touch(d0.r), 12), LAMBDA c :
         readID([d0 EXCEPT !.r = c.r], BufFull(c.b, 4)))

\* the AIFC tail of the COMM chunk: ds is the read of the encoding name
commEncName(d1, ds) ==
  IF ds.err # "nil" THEN [d |-> [d1 EXCEPT !.err = "AIFC encoding failed to parse"], err |-> "AIFC encoding failed to parse"]
  ELSE [d |-> [d1 EXCEPT !.EncodingName = ds.b, !.err = "nil"], err |-> "nil"]

\* ns is the read of the length byte of the encoding name
commEncNameSize(d1, ns) ==
  IF ns.err # "nil" THEN [d |-> [d1 EXCEPT !.err = "AIFC encoding failed to parse"], err |-> "AIFC encoding failed to parse"]
  ELSE IF ns.b[1] = 0 THEN [d |-> [d1 EXCEPT !.err = "nil"], err |-> "nil"]
  ELSE commEncName(d1, BufFull(ns.rest, ns.b[1]))

\* the AIFC fields read without the switch of byte order
parseCommAIFC_be(d0, en) ==
  IF en.err # "nil" THEN [d |-> [d0 EXCEPT !.err = "AIFC encoding failed to parse"], err |-> "AIFC encoding failed to parse"]
  ELSE commEncNameSize([d0 EXCEPT !.Encoding = en.b], BufFull(en.rest, 1))

\* en is the read of the 4-byte encoding from the in-memory copy
parseCommAIFC(d0, en) ==
  IF en.err # "nil" THEN [d |-> [d0 EXCEPT !.err = "AIFC encoding failed to parse"], err |-> "AIFC encoding failed to parse"]
  ELSE commEncNameSize([d0 EXCEPT !.Encoding = en.b,
                                  !.byteOrder = IF en.b = encSowt THEN "LittleEndian" ELSE @],
                       BufFull(en.rest, 1))

\* parseCommChunk field by field: d1 is the decoder so far, the second
\* argument the read of the next field from the in-memory copy of the chunk
commRate(d1, sr) ==
  IF sr.err # "nil" THEN [d |-> [d1 EXCEPT !.err = "sample rate failed to parse"], err |-> "sample rate failed to parse"]
  ELSE IF d1.Form = aifcID
  THEN parseCommAIFC([d1 EXCEPT !.SampleRate = IEEEFloatToInt(sr.b), !.err = "nil"], BufFull(sr.rest, 4))
  ELSE [d |-> [d1 EXCEPT !.SampleRate = IEEEFloatToInt(sr.b), !.err = "nil"], err |-> "nil"]

commDepth(d1, bd) ==
  IF bd.err # "nil" THEN [d |-> [d1 EXCEPT !.err = "sample size failed to parse"], err |-> "sample size failed to parse"]
  ELSE commRate([d1 EXCEPT !.BitDepth = U16(bd.b)], BufFull(bd.rest, 10))

commFrames(d1, nf) ==
  IF nf.err # "nil" THEN [d |-> [d1 EXCEPT !.err = "num of sample frames failed to parse"], err |-> "num of sample frames failed to parse"]
  ELSE commDepth([d1 EXCEPT !.NumSampleFrames = U32(nf.b)], BufFull(nf.rest, 2))

commChans(d1, nc) ==
  IF nc.err # "nil" THEN [d |-> [d1 EXCEPT !.err = "num of channels failed to parse"], err |-> "num of channels failed to parse"]
  ELSE commFrames([d1 EXCEPT !.NumChans = U16(nc.b)], BufFull(nc.rest, 4))

parseCommChunk(d0, size) ==
  IF d0.NumChans > 0 THEN [d |-> d0, err |-> "nil"]
  ELSE With(CopyN(Touch(d0.r), size), LAMBDA c :
         commChans([d0 EXCEPT !.commSize = size, !.r = c.r], BufFull(c.b, 2)))

\* the comments of an in-memory COMT payload br, after the 16-bit count
RECURSIVE readComments(_, _, _)
readComments(br, left, cs) ==
  IF left = 0 THEN cs
  ELSE
    LET a == SubSeq(br, 9, Len(br))
        b == IF a = << >> THEN 0 ELSE a[1]
        t == SubSeq(a, 2, Len(a))
        got == Min(b, Len(t))
        textB == SubSeq(t, 1, got) \o Zeros(b - got)
    IN readComments(SubSeq(t, got + 1, Len(t)), left - 1, Append(cs, TrimRightZero(textB)))

\* the comments of the chunk: cnt is the read of the 16-bit count
commentsOf(d1, cnt) ==
  [d |-> [d1 EXCEPT !.Comments =
            readComments(cnt.rest, IF cnt.err = "nil" THEN U16(cnt.b) ELSE 0, @)],
   err |-> "nil"]

parseCommentsChunk(d0, chunk) ==
  IF chunk.ID # COMTID THEN [d |-> d0, err |-> "unexpected comments chunk ID"]
  ELSE With(CopyN(Touch(d0.r), chunk.Size), LAMBDA c :
         IF c.err # "nil" THEN [d |-> [d0 EXCEPT !.r = c.r, !.err = c.err], err |-> c.err]
         ELSE commentsOf([d0 EXCEPT !.r = c.r, !.err = c.err], BufFull(c.b, 2)))

\* jumpTo: seeks forward; a forward seek of the stream does not fail
jumpTo(d0, bytesAhead) ==
  IF bytesAhead > 0 THEN [d0 EXCEPT !.r = SeekCur(Touch(@), bytesAhead)] ELSE d0

\* io.LimitReader(d.r, size) wrapped in a Chunk
NewChunk(id, size) == [ID |-> id, Size |-> size, Pos |-> 0, N |-> size, set |-> TRUE]

\* the COMM branch of the scan: p is the result of parseCommChunk
rewindAfterComm(p, rewindBytes, size) ==
  IF rewindBytes > 0
  THEN [p.d EXCEPT !.r = SeekCur(Touch(@), 0 - (rewindBytes + size + 8))]
  ELSE p.d

RECURSIVE ReadInfoLoop(_, _)
ReadInfoLoop(d0, rewindBytes) ==
  IF d0.err = "EOF" THEN d0
  ELSE With(iDnSize(d0), LAMBDA h :
    IF h.err # "nil" THEN [h.d EXCEPT !.err = "error reading chunk header"]
    ELSE IF h.ID = COMMID THEN
      rewindAfterComm(parseCommChunk(Saw(h.d, h.ID), h.blockSize), rewindBytes, h.blockSize)
    ELSE IF h.ID = COMTID THEN
      ReadInfoLoop(parseCommentsChunk(Saw(h.d, h.ID), NewChunk(h.ID, h.blockSize)).d, rewindBytes)
    ELSE
      ReadInfoLoop([jumpTo(h.d, h.blockSize) EXCEPT !.err = "nil"],
                   IF h.d.SampleRate = 0 THEN rewindBytes + h.blockSize + 8 ELSE rewindBytes))

\* ReadInfo after readHeaders returned h
scanAfterHeaders(h) ==
  IF h.err # "nil" THEN [h.d EXCEPT !.err = "failed to read header"]
  ELSE ReadInfoLoop([h.d EXCEPT !.err = "nil"], 0)

ReadInfo(d0) ==
  IF d0.SampleRate > 0 THEN d0 ELSE scanAfterHeaders(readHeaders(d0))

(***************************************************************************)
(* Chunk: a header plus an io.LimitReader over the decoder's stream.  N is *)
(* what the limit reader may still deliver, Pos the chunk's own cursor.    *)
(***************************************************************************)
\* one Read call on the limit reader with a destination of n bytes
LimRead(r, ch, n) ==
  IF ch.N <= 0 THEN [r |-> r, ch |-> ch, b |-> << >>, err |-> "EOF"]
  ELSE
    LET k == Min(n, ch.N)
        got == Min(k, Avail(r))
    IN IF Avail(r) = 0
       THEN [r |-> Touch(r), ch |-> ch, b |-> << >>, err |-> "EOF"]
       ELSE [r |-> [Touch(r) EXCEPT !.pos = @ + got],
             ch |-> [ch EXCEPT !.N = @ - got],
             b |-> SubSeq(r.data, r.pos + 1, r.pos + got), err |-> "nil"]

\* io.ReadFull / io.CopyN through the limit reader: as many of the n bytes as
\* the limit and the stream allow
LimFull(r, ch, n) ==
  LET got == Min(Max(n, 0), Min(Max(ch.N, 0), Avail(r))) IN
  [r |-> [(IF n > 0 /\ ch.N > 0 THEN Touch(r) ELSE r) EXCEPT !.pos = @ + got],
   ch |-> [ch EXCEPT !.N = @ - got],
   b |-> SubSeq(r.data, r.pos + 1, r.pos + got),
   err |-> IF got = n THEN "nil" ELSE IF got = 0 THEN "EOF" ELSE "ErrUnexpectedEOF"]

IsFullyRead(ch) == ch.Size <= ch.Pos

\* Chunk.ReadBE / ReadLE of a value of n bytes
ChunkReadBE(r, ch, n) ==
  IF IsFullyRead(ch) THEN [r |-> r, ch |-> ch, b |-> << >>, err |-> "EOF"]
  ELSE LimFull(r, [ch EXCEPT !.Pos = @ + n], n)

\* Chunk.Read
ChunkRead(r, ch, n) ==
  With(LimRead(r, ch, n), LAMBDA x : [x EXCEPT !.ch.Pos = @ + Len(x.b)])

\* Chunk.Done: discards Size - Pos bytes through the limit reader
ChunkDone(r, ch) ==
  IF IsFullyRead(ch) THEN r ELSE LimFull(r, ch, ch.Size - ch.Pos).r

(***************************************************************************)
(* Vendor chunks.                                                          *)
(***************************************************************************)
\* binary.Read of an unsigned field of n bytes into a field holding old
FieldBE(x, n, old) ==
  IF x.err # "nil" THEN old ELSE IF n = 2 THEN U16(x.b) ELSE U32(x.b)

parseBascChunk(d0, chunk) ==
  IF chunk.ID # bascID THEN [d |-> d0, err |-> "unexpected BASC chunk ID"]
  ELSE
    With(LimFull(d0.r, chunk, 4), LAMBDA ver :
    With(LimFull(ver.r, ver.ch, 4), LAMBDA bts :
    With(LimFull(bts.r, bts.ch, 2), LAMBDA nte :
    With(LimFull(nte.r, nte.ch, 2), LAMBDA scl :
    With(LimFull(scl.r, scl.ch, 2), LAMBDA num :
    With(LimFull(num.r, num.ch, 2), LAMBDA den :
    With(ChunkReadBE(den.r, den.ch, 1), LAMBDA pad :
    With(LimFull(pad.r, pad.ch, 2), LAMBDA lf :
      [d |-> [d0 EXCEPT !.HasAppleInfo = TRUE,
                        !.AppleInfo = [@ EXCEPT
                          !.Beats = FieldBE(bts, 4, @), !.Note = FieldBE(nte, 2, @),
                          !.Scale = FieldBE(scl, 2, @), !.Numerator = FieldBE(num, 2, @),
                          !.Denominator = FieldBE(den, 2, @),
                          !.IsLooping = IF FieldBE(lf, 2, 0) = 1 THEN TRUE ELSE @],
                        !.r = ChunkDone(lf.r, lf.ch)],
       err |-> "nil"]))))))))

\* clen / nullTermStr
RECURSIVE nullTermStr(_)
nullTermStr(b) ==
  IF b = << >> \/ b[1] = 0 THEN << >> ELSE <<b[1]>> \o nullTermStr(SubSeq(b, 2, Len(b)))

\* a Read into the reused 50-byte slot tmp: what arrives overwrites its head
Overlay(tmp, b) == b \o SubSeq(tmp, Len(b) + 1, Len(tmp))

\* left reads of a 50-byte tag slot; st = [r, ch, tmp, tags, err]
RECURSIVE readTags(_, _)
readTags(st, left) ==
  IF left <= 0 THEN st
  ELSE
    With(LimRead(st.r, st.ch, 50), LAMBDA x :
      IF x.err # "nil" THEN [st EXCEPT !.r = x.r, !.ch = x.ch, !.err = x.err]
      ELSE
        LET tmp == Overlay(st.tmp, x.b) IN
        readTags([st EXCEPT !.r = x.r, !.ch = x.ch, !.tmp = tmp,
                            !.tags = IF tmp[1] > 0 THEN Append(@, nullTermStr(tmp)) ELSE @],
                 left - 1))

\* int16 of two big-endian bytes
I16(b) == IF U16(b) >= 32768 THEN U16(b) - 65536 ELSE U16(b)

\* parseCateChunk after the descriptors were read: td is the state of the reads
cateDone(d3, td) ==
  IF td.err # "nil" THEN [d |-> d3, err |-> td.err, ch |-> td.ch]
  ELSE IF IsFullyRead(td.ch) THEN [d |-> d3, err |-> "nil", ch |-> td.ch]
  ELSE With(LimFull(td.r, td.ch, td.ch.Size - td.ch.Pos), LAMBDA dn :
         [d |-> [d3 EXCEPT !.r = dn.r], err |-> "nil", ch |-> dn.ch])

parseCateChunk(d0, chunk) ==
  IF chunk.ID # cateID THEN [d |-> d0, err |-> "unexpected CATE chunk ID", ch |-> chunk]
  ELSE
    With(LimRead(d0.r, chunk, 4), LAMBDA sk :
      IF sk.err # "nil"
      THEN [d |-> [d0 EXCEPT !.HasAppleInfo = TRUE, !.r = sk.r], err |-> sk.err, ch |-> sk.ch]
      ELSE
        With(readTags([r |-> sk.r, ch |-> sk.ch, tmp |-> Zeros(50),
                       tags |-> d0.AppleInfo.Tags, err |-> "nil"], 4), LAMBDA t4 :
          IF t4.err # "nil"
          THEN [d |-> [d0 EXCEPT !.HasAppleInfo = TRUE, !.r = t4.r, !.AppleInfo.Tags = t4.tags],
                err |-> t4.err, ch |-> t4.ch]
          ELSE
            With(LimRead(t4.r, t4.ch, 16), LAMBDA s16 :
              IF s16.err # "nil"
              THEN [d |-> [d0 EXCEPT !.HasAppleInfo = TRUE, !.r = s16.r, !.AppleInfo.Tags = t4.tags],
                    err |-> s16.err, ch |-> s16.ch]
              ELSE
                With(LimFull(s16.r, s16.ch, 2), LAMBDA nd :
                With(readTags([r |-> nd.r, ch |-> nd.ch, tmp |-> Zeros(50),
                               tags |-> t4.tags, err |-> "nil"],
                              IF nd.err = "nil" THEN I16(nd.b) ELSE 0), LAMBDA td :
                  cateDone([d0 EXCEPT !.HasAppleInfo = TRUE, !.r = td.r,
                                      !.AppleInfo.Tags = td.tags], td))))))

(***************************************************************************)
(* Chunk dispatch.                                                         *)
(***************************************************************************)
\* the COMM branch of the dispatcher: p is the result of parseCommChunk
afterComm(p) ==
  IF p.err # "nil" THEN [d |-> p.d, err |-> p.err]
  ELSE IF p.d.rewindBytes > 0
  THEN [d |-> [p.d EXCEPT !.r = SeekCur(Touch(@), 0 - p.d.rewindBytes), !.rewindBytes = 0],
        err |-> "nil"]
  ELSE [d |-> p.d, err |-> "nil"]

\* the CATE branch: c is the result of parseCateChunk
afterCate(c) == [d |-> [c.d EXCEPT !.r = ChunkDone(@, c.ch)], err |-> "nil"]

\* the dispatcher on a decoder d0 that has logged the chunk
dispatch(d0, chunk) ==
  IF chunk.ID = COMMID THEN
    afterComm(parseCommChunk(IF d0.commSize > 0 THEN [d0 EXCEPT !.r = ChunkDone(@, chunk)] ELSE d0,
                             chunk.Size))
  ELSE IF chunk.ID = SSNDID THEN [d |-> [d0 EXCEPT !.r = ChunkDone(@, chunk)], err |-> "nil"]
  ELSE IF chunk.ID = COMTID THEN [d |-> parseCommentsChunk(d0, chunk).d, err |-> "nil"]
  ELSE IF chunk.ID = bascID THEN [d |-> parseBascChunk(d0, chunk).d, err |-> "nil"]
  ELSE IF chunk.ID = chanID THEN [d |-> [d0 EXCEPT !.r = ChunkDone(@, chunk)], err |-> "nil"]
  ELSE IF chunk.ID = trnsID THEN [d |-> [d0 EXCEPT !.r = ChunkDone(@, chunk)], err |-> "nil"]
  ELSE IF chunk.ID = cateID THEN afterCate(parseCateChunk(d0, chunk))
  ELSE
    [d |-> [d0 EXCEPT !.rewindBytes = IF d0.SampleRate = 0 THEN @ + chunk.Size ELSE @,
                      !.r = ChunkDone(@, chunk)],
     err |-> "nil"]

parseChunk(dIn, chunk) == dispatch(Saw(dIn, chunk.ID), chunk)

(***************************************************************************)
(* Walking the chunks.                                                     *)
(***************************************************************************)
\* what NextChunk returns when reading the chunk header failed with err
headerErr_strict(err) ==
  IF err = "EOF" THEN "EOF" ELSE "error reading chunk header"

headerErr(err) ==
  IF err = "EOF" \/ err = "ErrUnexpectedEOF" THEN "EOF" ELSE "error reading chunk header"

\* the size NextChunk gives the chunk: an odd declared size is realigned
\* size++ on a uint32 held as its four bytes: the carry out of the top byte is lost
Inc32(b) ==
  IF b[4] < 255 THEN <<b[1], b[2], b[3], b[4] + 1>>
  ELSE IF b[3] < 255 THEN <<b[1], b[2], b[3] + 1, 0>>
  ELSE IF b[2] < 255 THEN <<b[1], b[2] + 1, 0, 0>>
  ELSE <<(b[1] + 1) % 256, 0, 0, 0>>

\* raw: the four bytes of the size field
paddedSize(raw) == IF raw[4] % 2 # 0 THEN U32(Inc32(raw)) ELSE U32(raw)

\* NextChunk after the chunk header was read: h is the result of iDnSize
chunkOf(h) ==
  IF h.err # "nil"
  THEN [d |-> h.d, chunk |-> NoChunk, err |-> headerErr(h.err)]
  ELSE [d |-> h.d, chunk |-> NewChunk(h.ID, paddedSize(h.raw)), err |-> "nil"]

\* NextChunk on the decoder d1 that ReadInfo left
nextAfterInfo(d1) ==
  IF d1.err # "nil"
  THEN [d |-> [d1 EXCEPT !.err = "failed to read info"], chunk |-> NoChunk, err |-> "failed to read info"]
  ELSE chunkOf(iDnSize(d1))

NextChunk(d0) == nextAfterInfo(ReadInfo(d0))

RECURSIVE DrainLoop(_)
DrainLoop(d0) ==
  IF d0.err # "nil" THEN [d |-> d0, err |-> d0.err]
  ELSE
    With(NextChunk(d0), LAMBDA n :
      IF n.err # "nil"
      THEN [d |-> [n.d EXCEPT !.err = n.err], err |-> IF n.err = "EOF" THEN "nil" ELSE n.err]
      ELSE With(parseChunk([n.d EXCEPT !.err = n.err], n.chunk), LAMBDA p :
             IF p.err # "nil"
             THEN [d |-> p.d, err |-> IF p.err = "EOF" THEN "nil" ELSE p.err]
             ELSE DrainLoop(p.d)))

Drain(d0) == DrainLoop(d0)

\* the uint32 difference a - b, kept as its two's-complement representative
Sub32(a, b) == a - b

\* the SSND branch of FwdToPCM on the chunk just returned by NextChunk
fwdSSND(d0, chunk) ==
  With(ChunkReadBE(d0.r, chunk, 4), LAMBDA o :
    IF o.err # "nil"
    THEN [d |-> [d0 EXCEPT !.r = o.r, !.err = "PCM offset failed to parse"], err |-> "PCM offset failed to parse"]
    ELSE
      With(ChunkReadBE(o.r, o.ch, 4), LAMBDA z :
        IF z.err # "nil"
        THEN [d |-> [d0 EXCEPT !.r = z.r, !.err = "PCMSize failed to parse"], err |-> "PCMSize failed to parse"]
        ELSE IF U32(o.b) > 0 THEN
          With(ChunkReadBE(z.r, z.ch, U32(o.b)), LAMBDA k :
            IF k.err # "nil"
            THEN [d |-> [d0 EXCEPT !.r = k.r, !.PCMSize = Sub32(U32(z.b), U32(o.b)),
                                   !.err = "failed to read the offsetted buffer"],
                  err |-> "failed to read the offsetted buffer"]
            ELSE [d |-> [d0 EXCEPT !.r = k.r, !.PCMSize = Sub32(U32(z.b), U32(o.b)),
                                   !.PCMChunk = k.ch, !.pcmDataAccessed = TRUE, !.err = "nil"],
                  err |-> "nil"])
        ELSE [d |-> [d0 EXCEPT !.r = z.r, !.PCMSize = U32(z.b), !.PCMChunk = z.ch,
                               !.pcmDataAccessed = TRUE, !.err = "nil"],
              err |-> "nil"]))

\* a chunk before SSND skipped without being parsed
fwdOther_skipped(d0, chunk) ==
  [d |-> [Saw(d0, chunk.ID) EXCEPT !.r = ChunkDone(@, chunk)], err |-> "nil"]

\* a chunk other than SSND met by FwdToPCM
fwdOther(d0, chunk) == parseChunk(d0, chunk)

RECURSIVE FwdLoop(_)
FwdLoop(d0) ==
  IF d0.err # "nil" THEN [d |-> d0, err |-> d0.err]
  ELSE
    With(NextChunk(d0), LAMBDA n :
      IF n.err # "nil"
      THEN [d |-> [n.d EXCEPT !.err = "failed to read next chunk"], err |-> "failed to read next chunk"]
      ELSE IF n.chunk.ID = SSNDID THEN fwdSSND(Saw([n.d EXCEPT !.err = "nil"], n.chunk.ID), n.chunk)
      ELSE With(fwdOther([n.d EXCEPT !.err = "nil"], n.chunk), LAMBDA p :
             IF p.err # "nil" THEN [d |-> p.d, err |-> "failed to parse the chunk"]
             ELSE FwdLoop(p.d)))

FwdToPCM(d0) ==
  With(readHeaders(d0), LAMBDA h :
    IF h.err # "nil" THEN [d |-> [h.d EXCEPT !.err = "failed to read header"], err |-> "nil"]
    ELSE FwdLoop([h.d EXCEPT !.err = "nil"]))

\* a Reset that leaves the PCM-located flag standing
Reset_keepsFlag(d0) ==
  [d0 EXCEPT !.ID = <<0, 0, 0, 0>>, !.Size = 0, !.Form = <<0, 0, 0, 0>>, !.commSize = 0,
             !.NumChans = 0, !.NumSampleFrames = 0, !.BitDepth = 0, !.SampleRate = 0,
             !.Encoding = <<0, 0, 0, 0>>, !.EncodingName = << >>, !.err = "nil",
             !.r = [Touch(@) EXCEPT !.pos = 0]]

Reset(d0) ==
  [d0 EXCEPT !.ID = <<0, 0, 0, 0>>, !.Size = 0, !.Form = <<0, 0, 0, 0>>, !.commSize = 0,
             !.NumChans = 0, !.NumSampleFrames = 0, !.BitDepth = 0, !.SampleRate = 0,
             !.Encoding = <<0, 0, 0, 0>>, !.EncodingName = << >>, !.err = "nil",
             !.pcmDataAccessed = FALSE, !.r = [Touch(@) EXCEPT !.pos = 0]]

(***************************************************************************)
(* Sample codecs.                                                          *)
(***************************************************************************)
bytesPerSample(bitDepth) == bitDepth \div 8

\* a codec table that takes every depth of a byte or more
SupportedDepth_wide(bitDepth) == bitDepth >= 8

SupportedDepth(bitDepth) == bitDepth \in {8, 16, 24, 32}

\* a signed value of w bits from its unsigned bit pattern
Signed(u, w) == IF u >= Pow2(w - 1) THEN u - Pow2(w) ELSE u

\* int32 of four bytes, most significant first
S32(b0, b1, b2, b3) == (((IF b0 >= 128 THEN b0 - 256 ELSE b0) * 256 + b1) * 256 + b2) * 256 + b3

\* 24-bit samples taken as unsigned
sampleValue_unsigned24(bitDepth, byteOrder, buf) ==
  IF bitDepth = 8 THEN buf[1]
  ELSE IF bitDepth = 16 THEN
    IF byteOrder = "BigEndian" THEN Signed(buf[1] * 256 + buf[2], 16)
    ELSE Signed(buf[2] * 256 + buf[1], 16)
  ELSE IF bitDepth = 24 THEN
    IF byteOrder = "BigEndian" THEN (buf[1] * 256 + buf[2]) * 256 + buf[3]
    ELSE (buf[3] * 256 + buf[2]) * 256 + buf[1]
  ELSE
    IF byteOrder = "BigEndian" THEN S32(buf[1], buf[2], buf[3], buf[4])
    ELSE S32(buf[4], buf[3], buf[2], buf[1])

\* the value the decode function returns for the sample buffer buf
sampleValue(bitDepth, byteOrder, buf) ==
  IF bitDepth = 8 THEN buf[1]
  ELSE IF bitDepth = 16 THEN
    IF byteOrder = "BigEndian" THEN Signed(buf[1] * 256 + buf[2], 16)
    ELSE Signed(buf[2] * 256 + buf[1], 16)
  ELSE IF bitDepth = 24 THEN
    IF byteOrder = "BigEndian" THEN Signed((buf[1] * 256 + buf[2]) * 256 + buf[3], 24)
    ELSE Signed((buf[3] * 256 + buf[2]) * 256 + buf[1], 24)
  ELSE
    IF byteOrder = "BigEndian" THEN S32(buf[1], buf[2], buf[3], buf[4])
    ELSE S32(buf[4], buf[3], buf[2], buf[1])

\* the decode function of sampleDecodeFunc applied until the in-memory reader
\* rest is exhausted or max samples were produced: each call does one Read
\* into the head of the reused sample buffer and converts the buffer
RECURSIVE decodeSamples(_, _, _, _, _, _)
decodeSamples(bitDepth, byteOrder, rest, buf, out, max) ==
  IF rest = << >> \/ Len(out) >= max THEN [out |-> out, buf |-> buf, rest |-> rest]
  ELSE
    LET m == Min(bytesPerSample(bitDepth), Len(rest))
        nb == Overlay(buf, SubSeq(rest, 1, m))
    IN decodeSamples(bitDepth, byteOrder, SubSeq(rest, m + 1, Len(rest)), nb,
                     Append(out, sampleValue(bitDepth, byteOrder, nb)), max)

(***************************************************************************)
(* PCM access.                                                             *)
(***************************************************************************)
\* samples per internal block of FullPCMBuffer
BlockSamples == 2048

\* the read loop of FullPCMBuffer; st = [r, ch, buf, out, err]
RECURSIVE fullLoop(_, _, _)
fullLoop(bitDepth, byteOrder, st) ==
  LET chunkSize == BlockSamples * bytesPerSample(bitDepth)
      leftOverSize == st.ch.Size - st.ch.Pos
      sizeToRead == IF leftOverSize < chunkSize THEN leftOverSize ELSE chunkSize
  IN IF sizeToRead < 1 THEN st
     ELSE
       With(ChunkRead(st.r, st.ch, sizeToRead), LAMBDA x :
         IF x.err # "nil" THEN [st EXCEPT !.r = x.r, !.ch = x.ch, !.err = x.err]
         ELSE
           With(decodeSamples(bitDepth, byteOrder, x.b, st.buf, st.out, Len(st.out) + Len(x.b)),
                LAMBDA s :
             fullLoop(bitDepth, byteOrder,
                      [st EXCEPT !.r = x.r, !.ch = x.ch, !.buf = s.buf, !.out = s.out])))

\* the PCM accessors first locate the sound data unless it was located before
located(d0) == IF d0.pcmDataAccessed THEN [d |-> d0, err |-> "nil"] ELSE FwdToPCM(d0)

\* FullPCMBuffer once the read loop has ended in the state st
fullResult(d1, st) ==
  [d |-> [d1 EXCEPT !.r = st.r, !.PCMChunk = st.ch], buf |-> st.out, ok |-> TRUE,
   err |-> IF st.err = "EOF" THEN "nil" ELSE st.err]

\* FullPCMBuffer after FwdToPCM returned f
fullAfterFwd(f) ==
  IF f.err # "nil" THEN [d |-> f.d, buf |-> << >>, ok |-> FALSE, err |-> "failed to forward to PCM"]
  ELSE IF ~SupportedDepth(f.d.BitDepth)
  THEN [d |-> f.d, buf |-> << >>, ok |-> FALSE, err |-> "could not get sample decode func"]
  ELSE IF ~f.d.PCMChunk.set
  THEN [d |-> f.d, buf |-> << >>, ok |-> FALSE, err |-> "panic: nil pointer dereference"]
  ELSE
    fullResult(f.d, fullLoop(f.d.BitDepth, f.d.byteOrder,
                             [r |-> f.d.r, ch |-> f.d.PCMChunk, buf |-> Zeros(4),
                              out |-> << >>, err |-> "nil"]))

FullPCMBuffer(d0) == fullAfterFwd(located(d0))

\* PCMBuffer once the caller-sized read x was decoded into s; a partial
\* trailing sample is not counted when the buffer was not filled
pcmResult(d1, x, s, L, bPerSample) ==
  LET k == Len(s.out)
      n == IF k < L /\ Len(x.b) % bPerSample > 0 THEN k - 1 ELSE k
  IN [d |-> d1, n |-> n, data |-> SubSeq(s.out, 1, n), err |-> "nil"]

\* PCMBuffer after the read x of L samples' worth of bytes from the chunk
pcmAfterRead(d0, x, L) ==
  IF x.err # "nil"
  THEN [d |-> [d0 EXCEPT !.r = x.r, !.PCMChunk = x.ch], n |-> Len(x.b), data |-> << >>,
        err |-> IF x.err = "EOF" THEN "nil" ELSE x.err]
  ELSE IF Len(x.b) = 0
  THEN [d |-> [d0 EXCEPT !.r = x.r, !.PCMChunk = x.ch], n |-> 0, data |-> << >>, err |-> "nil"]
  ELSE
    pcmResult([d0 EXCEPT !.r = x.r, !.PCMChunk = x.ch], x,
              decodeSamples(d0.BitDepth, d0.byteOrder, x.b,
                            Zeros(bytesPerSample(d0.BitDepth)), << >>, L),
              L, bytesPerSample(d0.BitDepth))

\* PCMBuffer after FwdToPCM returned f
pcmAfterFwd(f, L) ==
  IF f.err # "nil" THEN [d |-> f.d, n |-> 0, data |-> << >>, err |-> f.err]
  ELSE IF ~SupportedDepth(f.d.BitDepth)
  THEN [d |-> f.d, n |-> 0, data |-> << >>, err |-> "could not get sample decode func"]
  ELSE IF ~f.d.PCMChunk.set
  THEN [d |-> f.d, n |-> 0, data |-> << >>, err |-> "panic: nil pointer dereference"]
  ELSE pcmAfterRead(f.d, LimRead(f.d.r, f.d.PCMChunk, L * bytesPerSample(f.d.BitDepth)), L)

\* PCMBuffer with a caller buffer of len(buf.Data) = L
PCMBuffer(d0, L) == pcmAfterFwd(located(d0), L)

(***************************************************************************)
(* Derived queries.                                                        *)
(***************************************************************************)
\* nanoseconds of frames / rate seconds, truncated
Nanos(frames, rate) ==
  frames * (1000000000 \div rate) + (frames * (1000000000 % rate)) \div rate

\* The conversion of a float64 that is NaN or infinite to an integer is left
\* to the build: each record is what one build yields for NaN and for +Inf
\* (the ends of the 64-bit range are held as the ends of the 32-bit one).
IntMin == (0 - 2147483647) - 1
IntMax == 2147483647
Builds ==
  { [nan |-> IntMin, inf |-> IntMin],
    [nan |-> 0,      inf |-> IntMax],
    [nan |-> IntMax, inf |-> IntMax] }

\* Duration on the decoder d1 that ReadInfo left, in the build b
durationOf(d1, b) ==
  IF Err(d1) # "nil" THEN [d |-> d1, duration |-> 0, err |-> Err(d1)]
  ELSE [d |-> d1,
        duration |-> IF d1.SampleRate > 0 THEN Nanos(d1.NumSampleFrames, d1.SampleRate)
                     ELSE IF d1.NumSampleFrames = 0 THEN b.nan ELSE b.inf,
        err |-> "nil"]

Duration(d0, b) == durationOf(ReadInfo(d0), b)

\* IsValidFile without the test of the compression code
validEncoding_any(du) ==
  [d |-> du.d, ok |-> du.err = "nil" /\ du.duration > 0]

\* the last tests of IsValidFile: du is the result of Duration
validEncoding(du) ==
  IF du.err # "nil" \/ du.duration <= 0 THEN [d |-> du.d, ok |-> FALSE]
  ELSE [d |-> du.d, ok |-> du.d.Encoding \in {encSowt, encNone, encNotSet}]

\* IsValidFile on the decoder d1 that ReadInfo left
validAfterInfo(d1, b) ==
  IF d1.err # "nil" THEN [d |-> d1, ok |-> FALSE]
  ELSE IF d1.NumChans < 1 THEN [d |-> d1, ok |-> FALSE]
  ELSE IF d1.BitDepth < 8 THEN [d |-> d1, ok |-> FALSE]
  ELSE validEncoding(Duration(d1, b))

IsValidFile(d0, b) == validAfterInfo(ReadInfo(d0), b)

\* q * 10^k + floor(r * 10^k / n), digit by digit
RECURSIVE LongDiv(_, _, _, _)
LongDiv(q, r, n, k) ==
  IF k = 0 THEN q ELSE LongDiv(q * 10 + (r * 10) \div n, (r * 10) % n, n, k - 1)

\* the tempo is held in hundredths of a beat per minute; -100 is the value -1
NoTempo == 0 - 100

\* round(beats / (duration.Seconds() / 60), 2) in hundredths:
\* floor(beats * 6 * 10^12 / nanos + 1/2).  A zero duration divides by zero
\* and round converts +Inf; a duration at an end of the range gives a
\* quotient below 1/200 in size, which rounds to 0.
tempoValue(beats, nanos, b) ==
  IF nanos = 0 THEN b.inf
  ELSE IF nanos \in {IntMin, IntMax} THEN 0
  ELSE LongDiv((beats * 12000000 + 1) \div (2 * nanos),
               ((beats * 12000000 + 1) % (2 * nanos)) \div 2, nanos, 6)

\* Tempo that uses the duration even when Duration failed
tempoAfterDuration_anyway(du, b) ==
  tempoValue(du.d.AppleInfo.Beats, du.duration, b)

\* Tempo once Duration returned du
tempoAfterDuration(du, b) ==
  IF du.err # "nil" THEN NoTempo ELSE tempoValue(du.d.AppleInfo.Beats, du.duration, b)

\* Tempo in the build b: the decoder it leaves and the value it returns
Tempo(d0, b) ==
  IF ~d0.HasAppleInfo \/ d0.AppleInfo.Beats < 1 THEN [d |-> d0, tempo |-> NoTempo]
  ELSE With(Duration(d0, b), LAMBDA du : [d |-> du.d, tempo |-> tempoAfterDuration(du, b)])

\* PCMLen: the uint32 PCMSize widened to int64.  A negative PCMSize is the
\* representative of the wrapped value PCMSize + 2^32.
PCMLen(d0) == d0.PCMSize

(***************************************************************************)
(* The encoder.  w is the output written so far; the header is emitted at  *)
(* construction with placeholder sizes, Write appends encoded samples,     *)
(* Close patches the sizes and the frame count.                            *)
(***************************************************************************)
NoEncoder ==
  [open |-> FALSE, closed |-> FALSE, w |-> << >>, SampleRate |-> 0, BitDepth |-> 0,
   NumChans |-> 0, pcmBytes |-> 0, formSizePos |-> 0, framesPos |-> 0, ssndSizePos |-> 0]

\* the bytes of one sample in the encoder's big-endian codec
encodeSample(bitDepth, v) ==
  IF bitDepth = 8 THEN <<v % 256>>
  ELSE IF bitDepth = 16 THEN <<(v \div 256) % 256, v % 256>>
  ELSE IF bitDepth = 24 THEN <<(v \div 65536) % 256, (v \div 256) % 256, v % 256>>
  ELSE <<(v \div 16777216) % 256, (v \div 65536) % 256, (v \div 256) % 256, v % 256>>

\* w with the bytes b written at offset pos (counted from 0)
Patch(w, pos, b) ==
  [i \in 1..Len(w) |-> IF i > pos /\ i <= pos + Len(b) THEN b[i - pos] ELSE w[i]]

NewEncoder(sampleRate, bitDepth, numChans) ==
  [open |-> TRUE, closed |-> FALSE,
   w |-> formID \o BE32(0) \o aiffID
         \o COMMID \o BE32(18) \o BE16(numChans) \o BE32(0) \o BE16(bitDepth)
         \o IntToIEEEFloat(sampleRate)
         \o SSNDID \o BE32(0) \o BE32(0) \o BE32(0),
   SampleRate |-> sampleRate, BitDepth |-> bitDepth, NumChans |-> numChans,
   pcmBytes |-> 0, formSizePos |-> 4, framesPos |-> 22, ssndSizePos |-> 42]

\* a Write that counts only the bytes of its own buffer
EncWrite_lastOnly(e0, data) ==
  IF ~SupportedDepth(e0.BitDepth) THEN [e |-> e0, err |-> "bit depth not supported"]
  ELSE
    LET b == Concat([i \in 1..Len(data) |-> encodeSample(e0.BitDepth, data[i])]) IN
    [e |-> [e0 EXCEPT !.w = @ \o b, !.pcmBytes = Len(b)], err |-> "nil"]

EncWrite(e0, data) ==
  IF ~SupportedDepth(e0.BitDepth) THEN [e |-> e0, err |-> "bit depth not supported"]
  ELSE
    LET b == Concat([i \in 1..Len(data) |-> encodeSample(e0.BitDepth, data[i])]) IN
    [e |-> [e0 EXCEPT !.w = @ \o b, !.pcmBytes = @ + Len(b)], err |-> "nil"]

\* a Close that writes the whole length as the FORM size
EncClose_wholeLength(e0) ==
  LET frameBytes == e0.NumChans * bytesPerSample(e0.BitDepth)
      frames == IF frameBytes > 0 THEN e0.pcmBytes \div frameBytes ELSE 0
      w1 == Patch(e0.w, e0.formSizePos, BE32(Len(e0.w)))
      w2 == Patch(w1, e0.ssndSizePos, BE32(e0.pcmBytes + 8))
      w3 == Patch(w2, e0.framesPos, BE32(frames))
  IN [e0 EXCEPT !.w = w3, !.closed = TRUE]

EncClose(e0) ==
  LET frameBytes == e0.NumChans * bytesPerSample(e0.BitDepth)
      frames == IF frameBytes > 0 THEN e0.pcmBytes \div frameBytes ELSE 0
      w1 == Patch(e0.w, e0.formSizePos, BE32(Len(e0.w) - 8))
      w2 == Patch(w1, e0.ssndSizePos, BE32(e0.pcmBytes + 8))
      w3 == Patch(w2, e0.framesPos, BE32(frames))
  IN [e0 EXCEPT !.w = w3, !.closed = TRUE]

(***************************************************************************)
(* Input streams.  A description names the sample format, the order of     *)
(* the chunks, the comment text, the payload of the unknown chunk, the     *)
(* form type, the first bytes of the file and the number of bytes of a     *)
(* further chunk header that follow the last chunk.                        *)
(***************************************************************************)
\* a chunk as the AIFF format lays it out: an odd payload is followed by a pad byte
ChunkBytes(id, payload) ==
  id \o BE32(Len(payload)) \o payload \o (IF Len(payload) % 2 = 1 THEN <<0>> ELSE << >>)

PcmByte(i) == IF i % 2 = 1 THEN 16 + i ELSE 200 + i

PcmBytes(f) == [i \in 1..(f.frames * f.chans * (f.bits \div 8)) |-> PcmByte(i)]

\* the bytes b with every sample of w bytes written least significant byte first
SwapSamples(b, w) ==
  [i \in 1..Len(b) |-> b[((i - 1) \div w) * w + (w - ((i - 1) % w))]]

\* the sample data as the stream stores it: an AIFC stream with compression
\* code sowt stores each sample least significant byte first
PcmData(ds) ==
  IF ds.form = aifcID /\ ds.comp = encSowt /\ ds.fmt.bits >= 8
  THEN SwapSamples(PcmBytes(ds.fmt), ds.fmt.bits \div 8)
  ELSE PcmBytes(ds.fmt)

\* a counted string, padded to an even number of bytes
PString(text) ==
  <<Len(text)>> \o text \o (IF Len(text) % 2 = 0 THEN <<0>> ELSE << >>)

CommPayload(f, form, comp, cname) ==
  BE16(f.chans) \o BE32(f.frames) \o BE16(f.bits) \o IntToIEEEFloat(f.rate)
  \o (IF form = aifcID THEN comp \o PString(cname) ELSE << >>)

ComtPayload(text) == BE16(1) \o Zeros(8) \o <<Len(text)>> \o text

\* the SSND payload: offset, block size, offset bytes of prefix, sample data
SsndPayload(ds) ==
  BE32(ds.off) \o BE32(ds.blk) \o [i \in 1..ds.off |-> 99] \o PcmData(ds)

\* the loop metadata: version, beats, note, scale, numerator, denominator,
\* one byte, loop flag, one byte of filler
BascPayload(beats) ==
  BE32(1) \o BE32(beats) \o BE16(48) \o BE16(2) \o BE16(4) \o BE16(4) \o <<0>>
  \o BE16(1) \o <<0>>

\* a 50-byte tag slot
TagSlot(text) == text \o Zeros(50 - Len(text))

\* the categories: 4 bytes, four tag slots, 16 bytes, a count, the descriptors
CatePayload ==
  Zeros(4) \o TagSlot(<<73>>) \o TagSlot(<< >>) \o TagSlot(<<83, 116>>) \o TagSlot(<< >>)
  \o Zeros(16) \o BE16(1) \o TagSlot(<<68>>)

\* the first keep bytes of a vendor payload
Cut(payload, keep) == SubSeq(payload, 1, Min(keep, Len(payload)))

\* an 80-bit sample rate that IEEEFloatToInt converts to 0
ZeroRate == <<64>> \o Zeros(9)

\* the format of a second format chunk: every field differs from f
OtherFmt(f) ==
  [bits |-> 32 - f.bits, chans |-> f.chans + 1, frames |-> f.frames + 1, rate |-> 44100]

OneChunk(ds, tag) ==
  IF tag = "COMM" THEN ChunkBytes(COMMID, CommPayload(ds.fmt, ds.form, ds.comp, ds.cname))
  ELSE IF tag = "SSND" THEN ChunkBytes(SSNDID, SsndPayload(ds))
  ELSE IF tag = "COMT" THEN ChunkBytes(COMTID, ComtPayload(ds.ctext))
  ELSE IF tag = "basc" THEN ChunkBytes(bascID, Cut(BascPayload(ds.beats), ds.vend))
  ELSE IF tag = "cate" THEN ChunkBytes(cateID, Cut(CatePayload, ds.vend))
  ELSE IF tag = "COMM0"
  THEN ChunkBytes(COMMID, BE16(ds.fmt.chans) \o BE32(ds.fmt.frames) \o BE16(ds.fmt.bits)
                          \o ZeroRate)
  ELSE IF tag = "COMM2"
  THEN ChunkBytes(COMMID, CommPayload(OtherFmt(ds.fmt), ds.form, ds.comp, ds.cname))
  ELSE IF tag = "chan" THEN ChunkBytes(chanID, ds.junk)
  ELSE IF tag = "DECL" THEN junkID \o ds.decl \o ds.junk
  ELSE IF tag = "trns" THEN ChunkBytes(trnsID, ds.junk)
  ELSE ChunkBytes(junkID, ds.junk)

Build(ds) ==
  LET body == Concat([i \in 1..Len(ds.layout) |-> OneChunk(ds, ds.layout[i])])
      tail == SubSeq(ChunkBytes(junkID, <<1, 2>>), 1, ds.tail)
      size == IF ds.zero THEN 0 ELSE 4 + Len(body) + Len(tail)
      all == ds.magic \o BE32(size) \o ds.form \o body \o tail
  IN SubSeq(all, 1, Min(ds.keep, Len(all)))

\* everything of the file is kept
Whole == 1000

Fmt(bits, chans, frames) == [bits |-> bits, chans |-> chans, frames |-> frames, rate |-> 22050]

Plain(f, layout) ==
  [fmt |-> f, layout |-> layout, ctext |-> <<65>>, junk |-> <<7, 9>>, form |-> aiffID,
   comp |-> encNone, cname |-> << >>, magic |-> formID, tail |-> 0, keep |-> Whole,
   beats |-> 4, vend |-> Whole, off |-> 0, blk |-> 0, zero |-> FALSE,
   decl |-> <<0, 0, 0, 2>>]

\* the order the format defines: COMM first, SSND last
Canonical(ds) ==
  [ds EXCEPT !.layout = <<"COMM">>
     \o SelectSeq(ds.layout, LAMBDA t: t # "COMM" /\ t # "SSND") \o <<"SSND">>]

Layouts ==
  { <<"COMM", "SSND">>, <<"SSND", "COMM">>, <<"COMT", "COMM", "SSND">>,
    <<"JUNK", "COMT", "COMM", "SSND">>, <<"COMT", "JUNK", "COMM", "SSND">>,
    <<"COMM", "COMT", "SSND", "JUNK">>, <<"COMM", "SSND", "COMT">> }

CoreFormats == { Fmt(8, 1, 3), Fmt(16, 1, 2), Fmt(24, 1, 1), Fmt(16, 2, 1), Fmt(12, 1, 2) }

\* well-formed streams: every chunk complete and padded
WellFormed ==
  { [Plain(f, l) EXCEPT !.ctext = c, !.junk = j] :
      f \in CoreFormats, l \in Layouts, c \in { <<65>>, <<65, 66>> }, j \in { <<7, 9>> } }
  \cup { [Plain(Fmt(16, 1, 2), l) EXCEPT !.junk = <<7, 9, 11>>] :
           l \in { <<"JUNK", "COMT", "COMM", "SSND">>, <<"COMM", "COMT", "SSND", "JUNK">> } }

\* streams that end inside a chunk header, or do not start with a valid header
Broken ==
  { [Plain(Fmt(16, 1, 2), <<"COMM", "SSND">>) EXCEPT !.tail = k] : k \in 1..7 }
  \cup { [Plain(Fmt(16, 1, 2), <<"COMM", "SSND">>) EXCEPT !.magic = <<82, 73, 70, 70>>],
         [Plain(Fmt(16, 1, 2), <<"COMM", "SSND">>) EXCEPT !.form = <<87, 65, 86, 69>>],
         [Plain(Fmt(16, 1, 2), <<"COMM", "SSND">>) EXCEPT !.keep = 10],
         [Plain(Fmt(16, 1, 2), <<"COMM", "SSND">>) EXCEPT !.keep = 30],
         [Plain(Fmt(16, 1, 2), <<"COMM">>) EXCEPT !.keep = Whole] }

\* the streams the API is exercised on in every order of calls
ApiStreams ==
  { Plain(f, l) : f \in { Fmt(16, 1, 2), Fmt(24, 1, 1), Fmt(12, 1, 2) },
                  l \in { <<"COMM", "SSND">>, <<"SSND", "COMM">>, <<"COMM", "COMT", "SSND", "JUNK">> } }
  \cup { [Plain(Fmt(16, 1, 2), <<"JUNK", "COMT", "COMM", "SSND">>) EXCEPT !.ctext = <<65, 66>>] }
  \cup Broken

Streams == WellFormed \cup Broken

(***************************************************************************)
(* The decoder's API as actions.                                           *)
(***************************************************************************)
NoCall == [op |-> "none", L |-> 0, err |-> "nil", n |-> 0, buf |-> << >>, ok |-> FALSE]

NoAcc == [L |-> 0, samples |-> << >>, done |-> FALSE]

\* the format info a decoder exposes
Info(dd) ==
  [NumChans |-> dd.NumChans, NumSampleFrames |-> dd.NumSampleFrames,
   BitDepth |-> dd.BitDepth, SampleRate |-> dd.SampleRate]

Call(op, L, err, n, buf, ok) ==
  [op |-> op, L |-> L, err |-> err, n |-> n, buf |-> buf, ok |-> ok]

InitOn(S) ==
  /\ desc \in S
  /\ d = NewDecoder(Build(desc))
  /\ last = NoCall
  /\ hist = << >>
  /\ nops = 0
  /\ failed = FALSE
  /\ acc = NoAcc
  /\ enc = NoEncoder
  /\ d2 = NewDecoder(<< >>)

\* bookkeeping common to every call on the decoder
Record(op, isErr) ==
  /\ nops < MaxOps
  /\ nops' = nops + 1
  /\ hist' = IF hist = << >> THEN <<op>> ELSE <<hist[Len(hist)], op>>
  /\ failed' = IF op = "Reset" THEN FALSE ELSE (failed \/ isErr)
  /\ UNCHANGED <<desc, acc, enc, d2>>

DoReadInfo ==
  /\ d' = ReadInfo(d)
  /\ last' = Call("ReadInfo", 0, Err(d'), 0, << >>, Err(d') = "nil")
  /\ Record("ReadInfo", Err(d') # "nil")

DoNextChunk ==
  \E consume \in BOOLEAN :
    \E x \in {NextChunk(d)} :
    /\ d' = IF consume /\ x.err = "nil" THEN [x.d EXCEPT !.r = ChunkDone(@, x.chunk)] ELSE x.d
    /\ last' = Call("NextChunk", 0, x.err, x.chunk.Size, x.chunk.ID, x.err = "nil")
    /\ Record("NextChunk", x.err \notin {"nil", "EOF"})

DoDrain ==
  \E x \in {Drain(d)} :
  /\ d' = x.d
  /\ last' = Call("Drain", 0, x.err, 0, << >>, x.err = "nil")
  /\ Record("Drain", x.err \notin {"nil", "EOF"})

DoFwdToPCM ==
  \E x \in {FwdToPCM(d)} :
  /\ d' = x.d
  /\ last' = Call("FwdToPCM", 0, x.err, 0, << >>, x.err = "nil")
  /\ Record("FwdToPCM", x.err \notin {"nil", "EOF"})

DoFullPCMBuffer ==
  \E x \in {FullPCMBuffer(d)} :
  /\ d' = x.d
  /\ last' = Call("FullPCMBuffer", 0, x.err, Len(x.buf), x.buf, x.ok)
  /\ Record("FullPCMBuffer", x.err \notin {"nil", "EOF"})

DoPCMBuffer ==
  \E L \in 1..MaxBufLen :
    \E x \in {PCMBuffer(d, L)} :
    /\ d' = x.d
    /\ last' = Call("PCMBuffer", L, x.err, x.n, x.data, x.err = "nil")
    /\ Record("PCMBuffer", x.err \notin {"nil", "EOF"})

DoReset ==
  /\ d' = [Reset(d) EXCEPT !.seen = << >>]
  /\ last' = Call("Reset", 0, "nil", 0, << >>, TRUE)
  /\ Record("Reset", FALSE)

DoErr ==
  /\ d' = d
  /\ last' = Call("Err", 0, Err(d), 0, << >>, Err(d) = "nil")
  /\ Record("Err", FALSE)

DoDuration ==
  \E b \in Builds : \E x \in {Duration(d, b)} :
  /\ d' = x.d
  /\ last' = Call("Duration", 0, x.err, x.duration, << >>, x.err = "nil")
  /\ Record("Duration", FALSE)

DoTempo ==
  \E b \in Builds : \E x \in {Tempo(d, b)} :
  /\ d' = x.d
  /\ last' = Call("Tempo", 0, "nil", x.tempo, << >>, x.tempo # NoTempo)
  /\ Record("Tempo", FALSE)

\* one turn of the loop of Drain: NextChunk, then parseChunk on its chunk
DoDrainTurn ==
  \E x \in {NextChunk(d)} :
    /\ x.err = "nil"
    /\ \E p \in {parseChunk([x.d EXCEPT !.err = "nil"], x.chunk)} :
         /\ d' = p.d
         /\ last' = Call("parseChunk", 0, p.err, x.chunk.Size, x.chunk.ID, p.err = "nil")
         /\ Record("parseChunk", p.err \notin {"nil", "EOF"})

\* a turn of the loop of Drain or of FwdToPCM has been taken and the loop
\* has not ended
Looping(op) == last.op = "none" \/ (last.op = op /\ ~last.ok)

LoopStep(op, dNew, err, id, ended) ==
  /\ nops < MaxTurns
  /\ d' = dNew
  /\ last' = Call(op, 0, err, nops + 1, id, ended)
  /\ nops' = nops + 1
  /\ hist' = <<op>>
  /\ UNCHANGED <<desc, failed, acc, enc, d2>>

\* one turn of the loop of Drain; the last turn is the return
DrainLoopTurn ==
  /\ Looping("Drain")
  /\ IF d.err # "nil" THEN LoopStep("Drain", d, d.err, << >>, TRUE)
     ELSE \E n \in {NextChunk(d)} :
       IF n.err # "nil"
       THEN LoopStep("Drain", [n.d EXCEPT !.err = n.err],
                     IF n.err = "EOF" THEN "nil" ELSE n.err, << >>, TRUE)
       ELSE \E q \in {parseChunk([n.d EXCEPT !.err = n.err], n.chunk)} :
              IF q.err # "nil"
              THEN LoopStep("Drain", q.d, IF q.err = "EOF" THEN "nil" ELSE q.err, n.chunk.ID, TRUE)
              ELSE LoopStep("Drain", q.d, "nil", n.chunk.ID, FALSE)

\* one turn of the loop of FwdToPCM, entered once the header was read
FwdLoopTurn ==
  /\ Looping("FwdToPCM")
  /\ \E h \in {IF last.op = "none" THEN readHeaders(d) ELSE [d |-> d, err |-> "nil"]} :
     IF h.err # "nil"
     THEN LoopStep("FwdToPCM", [h.d EXCEPT !.err = "failed to read header"], "nil", << >>, TRUE)
     ELSE IF last.op # "none" /\ d.err # "nil" THEN LoopStep("FwdToPCM", d, d.err, << >>, TRUE)
     ELSE \E n \in {NextChunk([h.d EXCEPT !.err = "nil"])} :
       IF n.err # "nil"
       THEN LoopStep("FwdToPCM", [n.d EXCEPT !.err = "failed to read next chunk"],
                     "failed to read next chunk", << >>, TRUE)
       ELSE IF n.chunk.ID = SSNDID
       THEN \E f \in {fwdSSND(Saw([n.d EXCEPT !.err = "nil"], n.chunk.ID), n.chunk)} :
              LoopStep("FwdToPCM", f.d, f.err, n.chunk.ID, TRUE)
       ELSE \E q \in {fwdOther([n.d EXCEPT !.err = "nil"], n.chunk)} :
              IF q.err # "nil"
              THEN LoopStep("FwdToPCM", q.d, "failed to parse the chunk", n.chunk.ID, TRUE)
              ELSE LoopStep("FwdToPCM", q.d, "nil", n.chunk.ID, FALSE)

DoPCMLen ==
  /\ d' = d
  /\ last' = Call("PCMLen", 0, "nil", PCMLen(d), << >>, TRUE)
  /\ Record("PCMLen", FALSE)

DoIsValidFile ==
  \E b \in Builds : \E x \in {IsValidFile(d, b)} :
  /\ d' = x.d
  /\ last' = Call("IsValidFile", 0, "nil", 0, << >>, x.ok)
  /\ Record("IsValidFile", FALSE)

Init == InitOn(ApiStreams)

Next ==
  \/ DoReadInfo
  \/ DoNextChunk
  \/ DoDrain
  \/ DoFwdToPCM
  \/ DoFullPCMBuffer
  \/ DoPCMBuffer
  \/ DoReset
  \/ DoErr
  \/ DoDuration
  \/ DoIsValidFile

Spec == Init /\ [][Next]_vars

(***************************************************************************)
(* The format scan followed by one pass over the stream.                   *)
(***************************************************************************)
InitScan == InitOn(Streams)

NextScan ==
  \/ (nops = 0 /\ DoReadInfo)
  \/ (nops = 1 /\ DoDrain)
  \/ (nops = 1 /\ DoFullPCMBuffer)

SpecScan == InitScan /\ [][NextScan]_vars

(***************************************************************************)
(* Incremental reads with one buffer length until a call delivers nothing. *)
(***************************************************************************)
\* largest buffer length of the incremental pass
MaxIncLen == 3

PcmFormats == { Fmt(b, c, n) : b \in {8, 16, 24, 32}, c \in {1, 2}, n \in {1, 2, 3} }

PcmStreams ==
  { Plain(f, <<"COMM", "SSND">>) : f \in PcmFormats }
  \cup { Plain(f, <<"COMT", "COMM", "SSND", "JUNK">>) : f \in { Fmt(8, 1, 3), Fmt(24, 1, 1), Fmt(16, 2, 2) } }

InitInc ==
  /\ desc \in PcmStreams
  /\ d = NewDecoder(Build(desc))
  /\ last = NoCall
  /\ hist = << >>
  /\ nops = 0
  /\ failed = FALSE
  /\ acc \in { [L |-> l, samples |-> << >>, done |-> FALSE] : l \in 1..MaxIncLen }
  /\ enc = NoEncoder
  /\ d2 = NewDecoder(<< >>)

IncRead ==
  /\ ~acc.done
  /\ \E x \in {PCMBuffer(d, acc.L)} :
     /\ d' = x.d
     /\ last' = Call("PCMBuffer", acc.L, x.err, x.n, x.data, x.err = "nil")
     /\ acc' = [acc EXCEPT !.samples = @ \o x.data, !.done = (x.n = 0 \/ x.err # "nil")]
  /\ UNCHANGED <<desc, hist, nops, failed, enc, d2>>

NextInc == IncRead

SpecInc == InitInc /\ [][NextInc]_vars

(***************************************************************************)
(* Round trip: decode, encode what was decoded, decode the encoder's       *)
(* output.                                                                 *)
(***************************************************************************)
InitRT == InitOn(PcmStreams)

RtDecode ==
  /\ hist = << >>
  /\ \E x \in {FullPCMBuffer(d)} :
     /\ d' = x.d
     /\ last' = Call("FullPCMBuffer", 0, x.err, Len(x.buf), x.buf, x.ok)
     /\ failed' = (x.err # "nil")
  /\ hist' = <<"decoded">>
  /\ UNCHANGED <<desc, nops, acc, enc, d2>>

RtNewEncoder ==
  /\ hist = <<"decoded">> /\ ~failed
  /\ enc' = NewEncoder(d.SampleRate, d.BitDepth, d.NumChans)
  /\ hist' = <<"decoded", "opened">>
  /\ UNCHANGED <<desc, d, last, nops, failed, acc, d2>>

RtWrite ==
  /\ hist = <<"decoded", "opened">>
  /\ \E x \in {EncWrite(enc, last.buf)} :
     /\ enc' = x.e
     /\ failed' = (x.err # "nil")
  /\ hist' = <<"opened", "written">>
  /\ UNCHANGED <<desc, d, last, nops, acc, d2>>

RtClose ==
  /\ hist = <<"opened", "written">> /\ ~failed
  /\ enc' = EncClose(enc)
  /\ hist' = <<"written", "closed">>
  /\ UNCHANGED <<desc, d, last, nops, failed, acc, d2>>

RtDecodeAgain ==
  /\ hist = <<"written", "closed">>
  /\ \E x \in {FullPCMBuffer(NewDecoder(enc.w))} :
     /\ d2' = x.d
     /\ acc' = [L |-> 0, samples |-> x.buf, done |-> x.err = "nil"]
  /\ hist' = <<"closed", "redecoded">>
  /\ UNCHANGED <<desc, d, last, nops, failed, enc>>

NextRT ==
  \/ RtDecode
  \/ RtNewEncoder
  \/ RtWrite
  \/ RtClose
  \/ RtDecodeAgain

SpecRT == InitRT /\ [][NextRT]_vars

(***************************************************************************)
(* Format variants: COMM chunks of plain and compressed (AIFC) streams     *)
(* with supported and unsupported channel counts, bit depths, frame        *)
(* counts and compression codes, and the streams with a bad header.  One   *)
(* or two calls are made on each.                                          *)
(***************************************************************************)
encFl32 == <<102, 108, 51, 50>>

encTwos == <<116, 119, 111, 115>>

FmtFormats ==
  { Fmt(b, c, n) : b \in {4, 8, 12, 16}, c \in {0, 1, 2}, n \in {0, 2} }
  \cup { Fmt(24, 1, 2), Fmt(32, 1, 1) }

FmtStreams ==
  { Plain(f, <<"COMM", "SSND">>) : f \in FmtFormats }
  \cup { [Plain(f, <<"COMM", "SSND">>) EXCEPT !.form = aifcID, !.comp = c] :
           f \in FmtFormats, c \in {encSowt, encNotSet, encFl32, encTwos} }
  \cup { [Plain(f, <<"COMM", "SSND">>) EXCEPT !.form = aifcID, !.cname = <<110, 47, 97>>] :
           f \in FmtFormats }
  \cup Broken

InitFmt == InitOn(FmtStreams)

\* an encoder opened with the format ReadInfo found, and one Write on it
FmtEncode ==
  /\ hist = <<"ReadInfo">> /\ d.err = "nil"
  /\ \E data \in { <<1>>, <<1, 2>> } :
       \E x \in {EncWrite(NewEncoder(d.SampleRate, d.BitDepth, d.NumChans), data)} :
         /\ enc' = x.e
         /\ last' = Call("Write", Len(data), x.err, 0, << >>, x.err = "nil")
         /\ failed' = (x.err # "nil")
  /\ hist' = <<"ReadInfo", "Write">>
  /\ nops' = nops + 1
  /\ UNCHANGED <<desc, d, acc, d2>>

NextFmt ==
  \/ nops = 0 /\ (DoReadInfo \/ DoIsValidFile \/ DoFullPCMBuffer \/ DoPCMBuffer)
  \/ nops = 1 /\ (DoIsValidFile \/ DoFullPCMBuffer \/ DoPCMBuffer)
  \/ nops = 1 /\ FmtEncode

SpecFmt == InitFmt /\ [][NextFmt]_vars

(***************************************************************************)
(* The sample codecs on their own: two samples of one depth are encoded    *)
(* and the bytes are decoded again through one shared sample buffer.       *)
(***************************************************************************)
MinInt32 == (0 - 2147483647) - 1

\* the ends of each depth's range, the values around a change of byte and of sign
SampleValues(bitDepth) ==
  IF bitDepth = 8 THEN {0, 1, 127, 128, 254, 255}
  ELSE IF bitDepth = 16
  THEN {0 - 32768, 0 - 32767, 0 - 257, 0 - 256, 0 - 129, 0 - 128, 0 - 1, 0, 1, 127, 128,
        255, 256, 32766, 32767}
  ELSE IF bitDepth = 24
  THEN {0 - 8388608, 0 - 8388607, 0 - 65537, 0 - 65536, 0 - 32769, 0 - 32768, 0 - 256,
        0 - 128, 0 - 1, 0, 1, 128, 255, 256, 32767, 32768, 65535, 65536, 8388606, 8388607}
  ELSE {MinInt32, MinInt32 + 1, 0 - 16777217, 0 - 16777216, 0 - 8388609, 0 - 8388608,
        0 - 65536, 0 - 256, 0 - 1, 0, 1, 255, 256, 65536, 8388607, 8388608, 16777215,
        16777216, 2147483646, 2147483647}

CodecInputs ==
  UNION { { [bits |-> b, vals |-> <<v, w>>] : v \in SampleValues(b), w \in {0, 1, 255} } :
          b \in {8, 16, 24, 32} }

InitCodec ==
  /\ desc \in CodecInputs
  /\ d = NewDecoder(<< >>)
  /\ last = NoCall
  /\ hist = << >>
  /\ nops = 0
  /\ failed = FALSE
  /\ acc = NoAcc
  /\ enc = NoEncoder
  /\ d2 = NewDecoder(<< >>)

\* the encoder's codec on each value; last.buf holds the bytes
CodecEncode ==
  /\ hist = << >>
  /\ last' = Call("encode", 0, "nil", Len(desc.vals),
                  Concat([i \in 1..Len(desc.vals) |-> encodeSample(desc.bits, desc.vals[i])]),
                  TRUE)
  /\ hist' = <<"encoded">>
  /\ UNCHANGED <<desc, d, nops, failed, acc, enc, d2>>

\* the decode function called once, then until the bytes are used up, on one
\* sample buffer; acc.L counts the bytes the first call took
CodecDecode ==
  /\ hist = <<"encoded">>
  /\ \E x \in {decodeSamples(desc.bits, "BigEndian", last.buf, Zeros(4), << >>, 1)} :
       \E y \in {decodeSamples(desc.bits, "BigEndian", x.rest, x.buf, x.out, Len(desc.vals))} :
         acc' = [L |-> Len(last.buf) - Len(x.rest), samples |-> y.out, done |-> y.rest = << >>]
  /\ hist' = <<"encoded", "decoded">>
  /\ UNCHANGED <<desc, d, last, nops, failed, enc, d2>>

NextCodec ==
  \/ CodecEncode
  \/ CodecDecode

SpecCodec == InitCodec /\ [][NextCodec]_vars

(***************************************************************************)
(* The encoder on its own: an encoder is opened, takes up to MaxWrites     *)
(* buffers, is closed, and its output is decoded.  acc.samples keeps the   *)
(* samples handed to Write so far.                                         *)
(***************************************************************************)
MaxWrites == 3

EncFormats == { Fmt(b, c, 0) : b \in {8, 16, 24, 32}, c \in {1, 2} }

WriteBuffers == { << >>, <<1>>, <<2, 3>> }

InitEnc ==
  /\ desc \in { Plain(f, <<"COMM", "SSND">>) : f \in EncFormats }
  /\ d = NewDecoder(<< >>)
  /\ last = NoCall
  /\ hist = << >>
  /\ nops = 0
  /\ failed = FALSE
  /\ acc = NoAcc
  /\ enc = NoEncoder
  /\ d2 = NewDecoder(<< >>)

EncOpen ==
  /\ hist = << >>
  /\ enc' = NewEncoder(desc.fmt.rate, desc.fmt.bits, desc.fmt.chans)
  /\ hist' = <<"opened">>
  /\ UNCHANGED <<desc, d, last, nops, failed, acc, d2>>

EncAdd ==
  /\ hist = <<"opened">> /\ ~failed
  /\ nops < MaxWrites
  /\ \E data \in WriteBuffers :
       \E x \in {EncWrite(enc, data)} :
         /\ enc' = x.e
         /\ last' = Call("Write", Len(data), x.err, 0, data, x.err = "nil")
         /\ failed' = (x.err # "nil")
         /\ acc' = [acc EXCEPT !.samples = @ \o data]
  /\ nops' = nops + 1
  /\ UNCHANGED <<desc, d, hist, d2>>

EncFinish ==
  /\ hist = <<"opened">> /\ ~failed
  /\ enc' = EncClose(enc)
  /\ hist' = <<"opened", "closed">>
  /\ UNCHANGED <<desc, d, last, nops, failed, acc, d2>>

EncReadBack ==
  /\ hist = <<"opened", "closed">>
  /\ \E x \in {FullPCMBuffer(NewDecoder(enc.w))} :
       /\ d2' = x.d
       /\ last' = Call("FullPCMBuffer", 0, x.err, Len(x.buf), x.buf, x.ok)
  /\ hist' = <<"closed", "read">>
  /\ UNCHANGED <<desc, d, nops, failed, acc, enc>>

NextEnc ==
  \/ EncOpen
  \/ EncAdd
  \/ EncFinish
  \/ EncReadBack

SpecEnc == InitEnc /\ [][NextEnc]_vars

(***************************************************************************)
(* Metadata and derived queries: streams with comment, loop-metadata and   *)
(* category chunks before and after the sound data, with whole and short   *)
(* vendor payloads, and streams whose format info cannot be read.          *)
(***************************************************************************)
\* vendor payloads cut to this many bytes are malformed
ShortVendor == 6

MetaLayouts ==
  { <<"COMM", "SSND">>, <<"COMM", "basc", "SSND">>, <<"COMM", "SSND", "basc", "cate">>,
    <<"COMM", "COMT", "cate", "SSND", "basc">>, <<"COMM", "SSND", "COMT">>,
    <<"COMM", "cate", "COMT", "SSND">> }

\* 4484 frames of 16-bit mono at 22050 Hz, the format chunk alone
KickStream == Plain(Fmt(16, 1, 4484), <<"COMM">>)

\* the last chunk is a comment chunk that declares 12 bytes and holds 6
ShortComment == [Plain(Fmt(16, 1, 2), <<"COMM", "SSND", "COMT">>) EXCEPT !.keep = 72]

MetaStreams ==
  { [Plain(Fmt(16, 1, 2), l) EXCEPT !.beats = b, !.vend = v] :
      l \in MetaLayouts, b \in {0, 4}, v \in {Whole, ShortVendor} }
  \cup { KickStream, ShortComment,
         Plain(Fmt(16, 1, 0), <<"COMM", "basc", "SSND">>),
         Plain(Fmt(16, 1, 2), <<"JUNK", "SSND">>),
         Plain(Fmt(16, 1, 2), <<"basc", "SSND">>),
         Plain(Fmt(8, 1, 1), <<"COMM", "SSND", "COMT", "basc">>),
         Plain(Fmt(24, 1, 1), <<"COMM", "COMT", "SSND", "basc">>),
         [Plain(Fmt(16, 1, 2), <<"COMM", "COMT", "SSND", "basc">>) EXCEPT !.off = 1],
         [Plain(Fmt(16, 1, 2), <<"COMM", "basc", "SSND", "COMT">>) EXCEPT !.off = 2, !.blk = 6],
         [Plain(Fmt(16, 1, 2), <<"basc", "COMM", "SSND">>) EXCEPT !.keep = 52],
         [Plain(Fmt(16, 1, 2), <<"COMT", "COMM", "SSND">>) EXCEPT !.keep = 26],
         [Plain(Fmt(16, 1, 2), <<"COMM", "SSND">>) EXCEPT !.magic = <<82, 73, 70, 70>>],
         [Plain(Fmt(16, 1, 2), <<"COMM", "SSND">>) EXCEPT !.keep = 30] }

InitMeta == InitOn(MetaStreams)

NextMeta ==
  \/ DoReadInfo
  \/ DoDrain
  \/ DoFullPCMBuffer
  \/ DoDuration
  \/ DoTempo

SpecMeta == InitMeta /\ [][NextMeta]_vars

(***************************************************************************)
(* The chunk dispatcher, one chunk at a time: streams that hold a chunk of *)
(* every kind, with format chunks of 0, 1 and 2 channels.                  *)
(***************************************************************************)
DispatchLayouts ==
  { <<"COMM", "SSND", "COMT">>, <<"COMM", "basc", "cate">>, <<"COMM", "chan", "trns">>,
    <<"JUNK", "COMM", "SSND">>, <<"COMM", "cate", "JUNK">>, <<"COMM", "COMT", "basc">>,
    <<"COMM", "COMM2", "SSND">>, <<"JUNK", "COMM", "COMM2">> }

DispatchStreams ==
  { [Plain(Fmt(16, c, 2), l) EXCEPT !.vend = v, !.junk = j, !.ctext = j] :
      c \in {0, 1, 2}, l \in DispatchLayouts, v \in {Whole, ShortVendor},
      j \in { <<7, 9>>, <<7, 9, 11>> } }

InitDispatch == InitOn(DispatchStreams)

NextDispatch ==
  \/ DoReadInfo
  \/ DoDrainTurn
  \/ DoDrain

SpecDispatch == InitDispatch /\ [][NextDispatch]_vars

(***************************************************************************)
(* The container header: streams whose header has a size field of 0, is    *)
(* not a FORM, or has another form type, next to well-formed ones, under   *)
(* the calls that read the header.                                         *)
(***************************************************************************)
riffID == <<82, 73, 70, 70>>

waveID == <<87, 65, 86, 69>>

HdrStreams ==
  { [Plain(f, l) EXCEPT !.zero = z, !.magic = m, !.form = fo] :
      f \in { Fmt(16, 1, 2), Fmt(12, 1, 2) },
      l \in { <<"COMM", "SSND">>, <<"COMM", "COMT", "SSND">> },
      z \in BOOLEAN, m \in {formID, riffID}, fo \in {aiffID, waveID} }

InitHdr == InitOn(HdrStreams)

NextHdr ==
  \/ DoReadInfo
  \/ DoIsValidFile
  \/ DoDrain
  \/ DoFwdToPCM
  \/ DoFullPCMBuffer
  \/ DoPCMBuffer
  \/ DoReset

SpecHdr == InitHdr /\ [][NextHdr]_vars

(***************************************************************************)
(* The size field of a chunk header: streams with a format chunk followed  *)
(* by a chunk whose four size bytes are chosen freely.  Sizes from 2^30 to *)
(* 2^32 - 2 are all held as HugeSize and are left out; 2^32 - 1 is in.     *)
(***************************************************************************)
SizeBytes == {0, 1, 63, 255}

DeclSizes ==
  { s \in [1..4 -> SizeBytes] : s[1] < 64 \/ s = <<255, 255, 255, 255>> }

PadStreams ==
  { [Plain(f, l) EXCEPT !.decl = s] :
      f \in { Fmt(16, 1, 2), Fmt(8, 2, 1) },
      l \in { <<"COMM", "DECL">>, <<"COMM", "DECL", "SSND">> },
      s \in DeclSizes }

InitPad == InitOn(PadStreams)

NextPad ==
  \/ DoReadInfo
  \/ DoNextChunk
  \/ DoDrainTurn

SpecPad == InitPad /\ [][NextPad]_vars

(***************************************************************************)
(* Termination of the chunk loops: Drain and FwdToPCM are run one turn at  *)
(* a time over streams in which format chunks, some with a sample rate of  *)
(* 0, stand at every place among other chunks.                             *)
(***************************************************************************)
TermTags == {"JUNK", "COMM", "COMM0", "SSND", "COMT"}

TermLayouts ==
  UNION { [1..n -> TermTags] : n \in 2..MaxChunks }

TermStreams ==
  { Plain(f, l) : f \in { Fmt(16, 1, 2), Fmt(16, 0, 2), Fmt(10, 1, 0) }, l \in TermLayouts }

InitTerm == InitOn(TermStreams)

NextTerm ==
  \/ DrainLoopTurn
  \/ FwdLoopTurn

\* a turn is counted: both loops are total, so a turn can be taken exactly when
\* a loop has not returned and fewer than MaxTurns turns have been followed
LoopTurn ==
  /\ nops < MaxTurns
  /\ (Looping("Drain") \/ Looping("FwdToPCM"))
  /\ nops' = nops + 1

\* a loop running in a goroutine is always given its next turn
SpecTerm == InitTerm /\ [][NextTerm]_vars /\ WF_nops(LoopTurn)

(***************************************************************************)
(* Locating the sound data: streams whose SSND chunk carries an offset and *)
(* a block size, on which FwdToPCM, PCMLen and PCMBuffer are called.       *)
(***************************************************************************)
SsndLayouts ==
  { <<"COMM", "SSND">>, <<"COMM", "COMT", "SSND", "JUNK">>, <<"SSND", "COMM">> }

SsndStreams ==
  { [Plain(f, l) EXCEPT !.off = o, !.blk = b] :
      f \in { Fmt(16, 1, 2), Fmt(8, 1, 3) }, l \in SsndLayouts,
      o \in {0, 1, 2}, b \in {0, 1, 4, 6} }
  \cup { [Plain(Fmt(16, 1, 2), <<"COMM", "SSND">>) EXCEPT !.magic = <<82, 73, 70, 70>>],
         [Plain(Fmt(16, 1, 2), <<"COMM", "SSND">>) EXCEPT !.keep = 10],
         [Plain(Fmt(16, 1, 2), <<"COMM", "SSND">>) EXCEPT !.off = 2, !.keep = 55],
         Plain(Fmt(16, 1, 2), <<"COMM", "COMT">>) }

InitSsnd == InitOn(SsndStreams)

NextSsnd ==
  \/ DoFwdToPCM
  \/ DoPCMLen
  \/ DoPCMBuffer

SpecSsnd == InitSsnd /\ [][NextSsnd]_vars

(***************************************************************************)
(* Properties.                                                             *)
(***************************************************************************)
RECURSIVE Count(_, _)
Count(q, x) == IF q = << >> THEN 0 ELSE (IF Head(q) = x THEN 1 ELSE 0) + Count(Tail(q), x)

Has(q, x) == Count(q, x) > 0

\* position of the first x in q (0 when absent)
RECURSIVE IndexOf(_, _)
IndexOf(q, x) ==
  IF q = << >> THEN 0
  ELSE IF Head(q) = x THEN 1
  ELSE IF IndexOf(Tail(q), x) = 0 THEN 0 ELSE 1 + IndexOf(Tail(q), x)

TagID(t) == IF t = "COMM" THEN COMMID ELSE IF t = "SSND" THEN SSNDID
            ELSE IF t = "COMT" THEN COMTID ELSE IF t = "basc" THEN bascID
            ELSE IF t = "cate" THEN cateID ELSE IF t = "chan" THEN chanID
            ELSE IF t = "COMM2" \/ t = "COMM0" THEN COMMID
            ELSE IF t = "trns" THEN trnsID ELSE junkID

\* the stream is well formed, in a format the sample codecs support
Decodable(ds) == ds \in WellFormed /\ SupportedDepth(ds.fmt.bits)

\* the bulk decode of the stream ds by a fresh decoder
Fresh(ds) == FullPCMBuffer(NewDecoder(Build(ds)))

\* C1: decoding a valid stream, encoding the result and decoding the
\* encoder's output gives the same channel count, bit depth, sample rate and
\* frame count and the same samples in the same order.
C1_RoundTrip ==
  (hist = <<"closed", "redecoded">>) =>
     /\ acc.done
     /\ Info(d2) = Info(d)
     /\ acc.samples = last.buf

\* C2: a stream with SSND before COMM decodes (ReadInfo, then FullPCMBuffer)
\* to the format info and the samples of the same chunks in canonical order.
C2_OutOfOrder ==
  (/\ hist = <<"ReadInfo", "FullPCMBuffer">>
   /\ Decodable(desc)
   /\ IndexOf(desc.layout, "SSND") < IndexOf(desc.layout, "COMM")) =>
     LET c == Fresh(Canonical(desc)) IN
     /\ last.err = c.err
     /\ last.buf = c.buf
     /\ Info(d) = Info(c.d)

\* C3: when ReadInfo found COMM after other chunks, the Drain that follows
\* handles every chunk of the file exactly once (the format chunk is parsed
\* once) and every comment of the file is in Comments exactly once.
C3_EveryChunkOnce ==
  (/\ hist = <<"ReadInfo", "Drain">>
   /\ desc \in WellFormed
   /\ IndexOf(desc.layout, "COMM") > 1) =>
     /\ \A t \in {"SSND", "COMT", "JUNK"} : Count(d.seen, TagID(t)) = Count(desc.layout, t)
     /\ Has(d.seen, COMMID)
     /\ \A i \in 1..Len(d.seen) : \E t \in {"COMM", "SSND", "COMT", "JUNK"} : d.seen[i] = TagID(t)
     /\ d.Comments = (IF Has(desc.layout, "COMT") THEN <<desc.ctext>> ELSE << >>)

\* C4: the samples of successive PCMBuffer calls with one buffer length, up
\* to the call that returns 0, are the samples FullPCMBuffer returns for the
\* stream on a fresh decoder.
C4_IncrementalEqualsBulk ==
  acc.done => acc.samples = Fresh(desc).buf

\* the declared size of the chunk tagged t in the stream ds is odd
OddChunk(ds, t) ==
  Has(ds.layout, t) /\
  Len(IF t = "COMT" THEN ComtPayload(ds.ctext)
      ELSE IF t = "JUNK" THEN ds.junk
      ELSE IF t = "SSND" THEN SsndPayload(ds)
      ELSE CommPayload(ds.fmt, ds.form, ds.comp, ds.cname)) % 2 = 1

\* C5: wherever a chunk of odd declared size sits, the next header is read
\* after exactly one pad byte: every chunk of the stream is handled, none is
\* read from a misaligned position, and the pass ends without error at the
\* end of the stream.
C5_OddPadding ==
  (/\ hist = <<"ReadInfo", "Drain">>
   /\ desc \in WellFormed
   /\ \E t \in {"COMM", "SSND", "COMT", "JUNK"} : OddChunk(desc, t)) =>
     /\ last.err = "nil"
     /\ \A t \in {"COMM", "SSND", "COMT", "JUNK"} : Has(desc.layout, t) => Has(d.seen, TagID(t))
     /\ \A i \in 1..Len(d.seen) : \E t \in {"COMM", "SSND", "COMT", "JUNK"} : d.seen[i] = TagID(t)
     /\ d.r.pos = Len(d.r.data)

\* a step that is a call of the API operation op
CallOf(op) == nops' = nops + 1 /\ last'.op = op

\* C6: a second ReadInfo leaves the decoder as the first left it (format
\* fields, error) and does no read or seek on the stream.
C6_ReadInfoIdempotent ==
  [][(CallOf("ReadInfo") /\ hist # << >> /\ hist[Len(hist)] = "ReadInfo") => d' = d]_vars

\* the last call reported a failure
ReportsFailure ==
  IF last.op = "IsValidFile" THEN ~last.ok
  ELSE IF last.op = "ReadInfo" THEN Err(d) # "nil"
  ELSE last.err \notin {"nil", "EOF"}

\* C7: once an operation has failed with an error that is not end-of-stream,
\* every later call reports failure until Reset.
C7_StickyErrors ==
  (failed /\ last.op # "Reset") => ReportsFailure

\* C8: Drain on a well-formed stream returns nil and Err() is nil afterwards.
C8_DrainSucceeds ==
  (hist = <<"Drain">> /\ desc \in WellFormed) => (last.err = "nil" /\ Err(d) = "nil")

\* the bytes left in the stream when NextChunk, called in the state dd, comes
\* to read a chunk header (the format info is read first)
Remaining(dd) == Avail(ReadInfo(dd).r)

\* the stream ends inside a chunk header and the cursor of dd stands there
AtTruncatedHeader(dd) == desc.tail \in 1..7 /\ Remaining(dd) = desc.tail

Parsed(dd) ==
  [ID |-> dd.ID, Size |-> dd.Size, Form |-> dd.Form, NumChans |-> dd.NumChans,
   NumSampleFrames |-> dd.NumSampleFrames, BitDepth |-> dd.BitDepth,
   SampleRate |-> dd.SampleRate, Encoding |-> dd.Encoding,
   EncodingName |-> dd.EncodingName, Comments |-> dd.Comments,
   HasAppleInfo |-> dd.HasAppleInfo, AppleInfo |-> dd.AppleInfo,
   PCMSize |-> dd.PCMSize, PCMChunk |-> dd.PCMChunk, byteOrder |-> dd.byteOrder,
   rewindBytes |-> dd.rewindBytes, err |-> dd.err]

\* C11: right after Reset the parsed state (format fields, comments, vendor
\* metadata flag and record, PCM size and handle, byte order, rewind counter,
\* error) is that of a fresh decoder, and a Drain that follows a Reset leaves
\* the comments and the vendor metadata a single Drain on a fresh decoder leaves.
C11_ResetClearsState ==
  /\ (last.op = "Reset") => Parsed(d) = Parsed(NewDecoder(Build(desc)))
  /\ (hist = <<"Reset", "Drain">>) =>
       With(Drain(NewDecoder(Build(desc))).d, LAMBDA f :
            d.Comments = f.Comments /\ d.AppleInfo = f.AppleInfo
            /\ d.HasAppleInfo = f.HasAppleInfo)

\* the stream does not start with FORM, size, AIFF or AIFC
BadHeader(ds) ==
  With(Build(ds), LAMBDA b :
       \/ Len(b) < 12
       \/ SubSeq(b, 1, 4) # formID
       \/ SubSeq(b, 9, 12) \notin {aiffID, aifcID})

NoInfo == [NumChans |-> 0, NumSampleFrames |-> 0, BitDepth |-> 0, SampleRate |-> 0]

\* C12: on a stream whose first four bytes are not FORM, whose form type is
\* neither AIFF nor AIFC, or that is shorter than 12 bytes, ReadInfo leaves
\* an error recorded, IsValidFile returns false, and no format field is set.
C12_HeaderValidation ==
  BadHeader(desc) =>
    /\ (last.op = "ReadInfo") => d.err # "nil"
    /\ (last.op = "IsValidFile") => ~last.ok
    /\ (last.op \in {"ReadInfo", "IsValidFile"}) => Info(d) = NoInfo

\* the COMM chunk that follows the header is complete
CommComplete(ds) ==
  Len(Build(ds)) >= 12 + 8 + Len(CommPayload(ds.fmt, ds.form, ds.comp, ds.cname))

\* what the claim requires of a stream that starts with its COMM chunk
ValidStream(ds) ==
  /\ ~BadHeader(ds)
  /\ ds.layout[1] = "COMM" /\ CommComplete(ds)
  /\ ds.fmt.chans >= 1
  /\ ds.fmt.bits >= 8
  /\ Nanos(ds.fmt.frames, ds.fmt.rate) > 0
  /\ (ds.form = aifcID => ds.comp \in {encSowt, encNone, encNotSet})

C14_UnsupportedDepth ==
  (desc.fmt.bits \notin {8, 16, 24, 32}) =>
    /\ (last.op \in {"FullPCMBuffer", "PCMBuffer"}) =>
         /\ last.err = "could not get sample decode func"
         /\ d.BitDepth = desc.fmt.bits
         /\ last.n = 0 /\ last.buf = << >>
    /\ (last.op = "Write") =>
         /\ last.err = "bit depth not supported"
         /\ enc.BitDepth = desc.fmt.bits
         /\ enc.pcmBytes = 0
         /\ enc.w = NewEncoder(enc.SampleRate, enc.BitDepth, enc.NumChans).w

\* a 12-bit stream whose PCM data was located and whose full decode was refused
C14_Witness ==
  /\ last.op = "FullPCMBuffer"
  /\ desc.fmt.bits = 12 /\ desc.fmt.frames > 0 /\ desc.fmt.chans > 0
  /\ d.pcmDataAccessed /\ d.PCMChunk.set
  /\ last.err = "could not get sample decode func"

\* C15: for each depth of 8, 16, 24 and 32 bits, decoding the bytes the
\* encoder's codec produces for a sample gives the sample back, for values
\* over the whole range of the depth (8-bit unsigned, the others signed),
\* and one decode takes exactly bitDepth / 8 bytes.
C15_CodecRoundTrip ==
  (hist = <<"encoded", "decoded">>) =>
     /\ acc.samples = desc.vals
     /\ acc.L = desc.bits \div 8
     /\ acc.done
     /\ Len(last.buf) = Len(desc.vals) * (desc.bits \div 8)

\* a negative 24-bit sample that went through the codec and came back
C15_Witness ==
  /\ hist = <<"encoded", "decoded">>
  /\ desc.bits = 24
  /\ desc.vals[1] = 0 - 8388608
  /\ last.buf = <<128, 0, 0, 0, 0, 255>>
  /\ acc.samples[1] < 0

\* the stream of the same format and the same samples stored as plain AIFF
BigEndianTwin(ds) == [ds EXCEPT !.form = aiffID]

FieldAt(w, pos) == U32(SubSeq(w, pos + 1, pos + 4))

\* C17: after Close, whatever the number of Writes, the FORM size field
\* holds the length of the output minus 8 and the SSND size field holds
\* the number of PCM bytes written plus 8.
C17_SizePatching ==
  enc.closed =>
    /\ FieldAt(enc.w, 4) = Len(enc.w) - 8
    /\ SubSeq(enc.w, 39, 42) = SSNDID
    /\ FieldAt(enc.w, 42) = enc.pcmBytes + 8
    /\ enc.pcmBytes = Len(acc.samples) * (enc.BitDepth \div 8)
    /\ Len(enc.w) = 54 + enc.pcmBytes
    /\ (hist = <<"closed", "read">>) => d2.Size = Len(enc.w) - 8

\* an encoder closed after three Writes, one of them of an empty buffer
C17_Witness ==
  /\ enc.closed
  /\ nops = 3
  /\ acc.samples = <<2, 3, 1>>
  /\ enc.BitDepth = 24
  /\ enc.pcmBytes = 9
  /\ FieldAt(enc.w, 42) = 17

\* C19: several Writes followed by Close produce the output of one Write of
\* the concatenated samples followed by Close, however the samples are
\* split, and the frame count in COMM is the number of samples written
\* divided by the channel count.
C19_Accumulation ==
  enc.closed =>
    /\ enc.w = EncClose(EncWrite(NewEncoder(enc.SampleRate, enc.BitDepth, enc.NumChans),
                                 acc.samples).e).w
    /\ SubSeq(enc.w, 13, 16) = COMMID
    /\ FieldAt(enc.w, 22) = Len(acc.samples) \div enc.NumChans
    /\ (hist = <<"closed", "read">>) =>
         d2.NumSampleFrames = Len(acc.samples) \div enc.NumChans

\* three samples written to a two-channel encoder in two Writes, then Close
C19_Witness ==
  /\ enc.closed
  /\ nops >= 2
  /\ last.op = "Write" /\ last.buf = <<2, 3>>
  /\ acc.samples = <<1, 2, 3>>
  /\ enc.NumChans = 2
  /\ FieldAt(enc.w, 22) = 1

\* C18: a stream that holds only the FORM header, COMM and SSND, decoded
\* and encoded again with the decoded sample rate, bit depth and channel
\* count, gives back the bytes of the input.
C18_ByteIdentical ==
  (hist = <<"written", "closed">> /\ desc.layout = <<"COMM", "SSND">>) =>
     enc.w = Build(desc)

\* C20: when FullPCMBuffer decodes a stream without error, the number of
\* samples is NumSampleFrames times NumChans; a pad byte after an SSND
\* chunk of odd size adds no sample.
C20_SampleCount ==
  (hist = <<"decoded">> /\ last.err = "nil") =>
     /\ Len(last.buf) = d.NumSampleFrames * d.NumChans
     /\ Len(last.buf) = desc.fmt.frames * desc.fmt.chans

\* the number of bytes a PCMBuffer call took from the PCM data: the move of
\* the cursor from where the PCM data was located to where the call left it
BytesRead(d0, d1) == d1.r.pos - located(d0).d.r.pos

\* C21: the count PCMBuffer returns is the number of raw bytes it read
\* divided by the sample width, rounded down, for every buffer length and
\* every length of the tail: a partial trailing sample is never counted.
C21_PartialDiscarded ==
  [][(last'.op = "PCMBuffer" /\ last' # last /\ last'.err = "nil")
       => last'.n = BytesRead(d, d') \div bytesPerSample(d'.BitDepth)]_vars

\* the PCM data was located and none of it is left to read
AtEndOfPCM(dd) ==
  dd.pcmDataAccessed /\ dd.PCMChunk.set /\ (dd.PCMChunk.N <= 0 \/ Avail(dd.r) = 0)

\* C22: PCMBuffer returns the number of samples it read, and a call made
\* when the reader has reached the end of the PCM data returns io.EOF.
C22_EOFAtEnd ==
  [][(last'.op = "PCMBuffer" /\ last' # last)
       => /\ last'.n = Len(last'.buf)
          /\ AtEndOfPCM(d) => (last'.n = 0 /\ last'.err = "EOF")]_vars

\* C23: Duration reads the format info if needed and returns the frame
\* count divided by the sample rate in nanoseconds, rounded down
\* (203356009 for 4484 frames at 22050 Hz); whenever the format info could
\* not be read it returns an error and zero.
C23_Duration ==
  (last.op = "Duration") =>
    /\ (last.err = "nil") =>
         /\ d.SampleRate > 0
         /\ last.n = Nanos(d.NumSampleFrames, d.SampleRate)
    /\ (last.err # "nil") => last.n = 0
    /\ (d.SampleRate = 0) => (last.err # "nil" /\ last.n = 0)
    /\ (desc = KickStream /\ hist = <<"Duration">>) =>
         (last.err = "nil" /\ last.n = 203356009)

\* the format info needed by Duration has been read without error
DurationKnown(dd) == Err(dd) = "nil" /\ dd.SampleRate > 0

\* C24: Tempo returns -1 whenever no loop metadata was read, the beat count
\* is below 1, or the duration cannot be computed; it returns another value
\* only when loop metadata with at least one beat is present.
C24_Tempo ==
  [][(last'.op = "Tempo" /\ nops' # nops)
       => /\ (~d.HasAppleInfo \/ d.AppleInfo.Beats < 1 \/ ~DurationKnown(d'))
               => last'.n = NoTempo
          /\ (last'.n # NoTempo) => (d.HasAppleInfo /\ d.AppleInfo.Beats >= 1)]_vars

\* loop metadata with a beat count was read, the decoder then failed, and
\* Tempo returned -1
C24_Witness ==
  /\ last.op = "Tempo"
  /\ last.n = NoTempo
  /\ d.HasAppleInfo /\ d.AppleInfo.Beats >= 1
  /\ Err(d) # "nil"

\* the format info, the comment list and the vendor metadata of a decoder
Metadata(dd) ==
  [info |-> Info(dd), comments |-> dd.Comments,
   has |-> dd.HasAppleInfo, apple |-> dd.AppleInfo]

ParseFailure(ds) ==
  \/ ds = ShortComment
  \/ /\ ds.vend = ShortVendor /\ ds.keep = Whole /\ ds.magic = formID
     /\ ds.layout[1] = "COMM"
     /\ \E i \in DOMAIN ds.layout : ds.layout[i] \in {"basc", "cate"}

\* C26: a failure parsing a comment or vendor (basc, cate) chunk is recovered
\* locally: it does not set the decoder's error, and Drain carries on over
\* the remaining chunks and returns success.
C26_LocalRecovery ==
  (nops = 1 /\ last.op = "Drain" /\ ParseFailure(desc))
    => /\ last.err = "nil"
       /\ d.err \in {"nil", "EOF"}
       /\ Len(d.seen) = Len(desc.layout)

\* the chunks of the stream ds that precede its SSND chunk
BeforeSsnd(ds) == SubSeq(ds.layout, 1, IndexOf(ds.layout, "SSND") - 1)

\* the position in the stream of the first byte of the SSND payload
SsndStart(ds) ==
  12 + Len(Concat([i \in 1..Len(BeforeSsnd(ds)) |-> OneChunk(ds, ds.layout[i])])) + 8

\* C27: once FwdToPCM has located the SSND chunk, PCMLen returns the number
\* of PCM bytes: the payload size of the chunk less 8 and less the offset.
C27_PCMLen ==
  (last.op = "PCMLen" /\ d.pcmDataAccessed /\ d.PCMChunk.set)
    => last.n = Len(SsndPayload(desc)) - 8 - desc.off

\* C28: when FwdToPCM returns success the PCM chunk handle is set,
\* WasPCMAccessed is true and the cursor is on the first PCM byte (start of
\* the SSND payload + 8 + offset): no PCM byte has been consumed.
C28_CursorOnPCM ==
  [][(last'.op = "FwdToPCM" /\ nops' # nops /\ last'.err = "nil")
       => /\ d'.PCMChunk.set
          /\ d'.pcmDataAccessed
          /\ d'.r.pos = SsndStart(desc) + 8 + desc.off
          /\ d'.PCMChunk.Pos = 8 + desc.off]_vars

\* C29: an SSND offset above the declared PCM byte count is reported as a
\* malformed stream; the PCM size is never a wrapped unsigned difference.
C29_OffsetChecked ==
  /\ d.PCMSize >= 0
  /\ (last.op = "FwdToPCM" /\ nops = 1 /\ Has(desc.layout, "SSND")
        /\ desc.keep = Whole /\ desc.magic = formID /\ desc.off > desc.blk)
       => last.err # "nil"

\* the positions in the stream of ds at which a chunk starts, and its end
ChunkStarts(ds) ==
  { 12 + Len(Concat([i \in 1..k |-> OneChunk(ds, ds.layout[i])])) : k \in 0..Len(ds.layout) }

\* the IDs of the chunks of the stream of ds
RealIDs(ds) == { TagID(ds.layout[i]) : i \in DOMAIN ds.layout }

\* C30: a chunk is fully consumed before the next header is read: when
\* NextChunk is called, directly or by Drain, while the chunk returned before
\* (the PCM chunk partly read by PCMBuffer included) has unread bytes, these
\* are drained first, so that the header is read at the start of a chunk.
C30_ChunkConsumed ==
  [][/\ (last'.op = "NextChunk" /\ nops' # nops /\ ReadInfo(d).err = "nil")
          => ReadInfo(d).r.pos \in ChunkStarts(desc)
     /\ (last'.op = "Drain" /\ nops' # nops)
          => \A i \in DOMAIN d'.seen : d'.seen[i] \in RealIDs(desc)]_vars

\* C31: every branch of the chunk dispatcher returns with the stream cursor
\* at the end of the padded declared size of its chunk, whatever the chunk
\* holds: a format chunk met again and one with 0 channels included.
C31_BranchConsumesChunk ==
  [][(last'.op = "parseChunk" /\ nops' # nops)
       => d'.r.pos = NextChunk(d).d.r.pos + NextChunk(d).chunk.Size]_vars

\* the format info of a decoder
FormatInfo(dd) ==
  [NumChans |-> dd.NumChans, NumSampleFrames |-> dd.NumSampleFrames,
   BitDepth |-> dd.BitDepth, SampleRate |-> dd.SampleRate, Encoding |-> dd.Encoding,
   EncodingName |-> dd.EncodingName, byteOrder |-> dd.byteOrder]

\* C32: the format info is set once: after a format chunk was parsed no
\* later call other than Reset (a second ReadInfo, a Drain that meets the
\* same or another format chunk) changes channel count, frame count, bit
\* depth, sample rate, compression code, encoding name or byte order.
C32_FormatSetOnce ==
  [][(d.commSize > 0 /\ last'.op # "Reset") => FormatInfo(d') = FormatInfo(d)]_vars

NilDeref == "panic: nil pointer dereference"

C34_HandleBeforeRead ==
  [][/\ (last'.op = "FwdToPCM" /\ nops' # nops /\ last'.err = "nil") => d'.PCMChunk.set
     /\ (last'.op \in {"FullPCMBuffer", "PCMBuffer"} /\ nops' # nops) => last'.err # NilDeref]_vars

\* C35: IsValidFile gives the same answer on a fresh decoder, after a
\* successful Drain and after a successful FullPCMBuffer of the same stream.
C35_ValidityStable ==
  (hist \in {<<"Drain">>, <<"FullPCMBuffer">>} /\ last.ok)
    => \A b \in Builds :
         IsValidFile(d, b).ok = IsValidFile(NewDecoder(Build(desc)), b).ok

\* C36: a stream whose header does not start with FORM, or whose form type
\* is neither AIFF nor AIFC, is never accepted: whatever calls are made
\* without a Reset, IsValidFile does not return true and the format info
\* stays unset.
NoResetYet == \A i \in 1..Len(hist) : hist[i] # "Reset"

C36_NeverAccepted ==
  ((desc.magic # formID \/ desc.form \notin {aiffID, aifcID}) /\ NoResetYet)
    => /\ (last.op = "IsValidFile" => ~last.ok)
       /\ FormatInfo(d) = FormatInfo(NewDecoder(Build(desc)))

\* C37: the 12-byte header is consumed at most once between creation (or
\* Reset) and the next Reset, whatever the size field holds, 0 included:
\* once bytes of the stream were consumed, a readHeaders call makes no read,
\* so chunk bytes are never taken for a header.
C37_HeaderReadOnce ==
  d.r.pos > 0 => readHeaders(d).d.r = d.r

\* C38: Drain is idempotent once it has finished: a second Drain right after
\* a successful one returns success too and changes neither the format
\* info, nor the comments, nor the vendor metadata.
C38_DrainTwice ==
  [][(last.op = "Drain" /\ last.ok /\ last'.op = "Drain" /\ nops' # nops)
       => /\ last'.ok
          /\ FormatInfo(d') = FormatInfo(d)
          /\ d'.Comments = d.Comments
          /\ d'.HasAppleInfo = d.HasAppleInfo
          /\ d'.AppleInfo = d.AppleInfo]_vars

\* C39: when IsValidFile answers true for a stream that has an SSND chunk,
\* FullPCMBuffer on a fresh decoder of that stream does not fail for want of
\* a sample decoder for the bit depth.
C39_ValidIsDecodable ==
  (/\ hist = <<"FullPCMBuffer">>
   /\ \E i \in 1..Len(desc.layout) : desc.layout[i] = "SSND"
   /\ \E b \in Builds : IsValidFile(NewDecoder(Build(desc)), b).ok)
    => last.err # "could not get sample decode func"

\* C40: for every declared chunk size s of 0 to 2^32 - 1, the chunk returned
\* by NextChunk has a Size and a reader limit of s when s is even and of
\* s + 1 when s is odd; the increment does not wrap, so 2^32 - 1 does not
\* give a chunk of size 0.  Numbers are compared as pairs of 16-bit limbs.
Limbs(n) == <<n \div 65536, n % 65536>>

Wide(b) == <<b[1] * 256 + b[2], b[3] * 256 + b[4]>>

Succ(w) == IF w[2] = 65535 THEN <<w[1] + 1, 0>> ELSE <<w[1], w[2] + 1>>

Claimed(b) == IF b[4] % 2 = 0 THEN Wide(b) ELSE Succ(Wide(b))

AtDeclared(dd) ==
  /\ desc.layout[2] = "DECL"
  /\ dd.SampleRate > 0
  /\ dd.r.pos = 12 + Len(OneChunk(desc, "COMM"))

C40_PaddedSize ==
  [][(last'.op = "NextChunk" /\ nops' # nops /\ last'.err = "nil" /\ AtDeclared(d))
       => /\ Limbs(NextChunk(d).chunk.Size) = Claimed(desc.decl)
          /\ Limbs(NextChunk(d).chunk.N) = Claimed(desc.decl)]_vars

====
